---- MODULE Spec2Model ----
(***************************************************************************)
(* Streaming optimisation session of the TV Optimiser backend              *)
(* (backend/app/main.py, backend/app/schemas.py): one WebSocket session    *)
(* running Optuna's ask/tell loop against a remote evaluator.              *)
(***************************************************************************)
EXTENDS Integers, Sequences, FiniteSets, TLC

(* ------------------------------ bounds -------------------------------- *)
\* Largest trial budget a modelled configuration asks for.
MaxTrials == 3
\* Client messages in flight towards the server.
MaxInbox == 1

(* ------------------------- program constants -------------------------- *)
PENALTY_SCORE == -1000000000
\* OptimisationSettings.trials: Field(gt=0, lt=5001)
TrialsGt == 0
TrialsLt == 5001

\* Optional values: None is the empty sequence, Some(v) the one-element one.
None == <<>>
Some(v) == <<v>>
IsNone(o) == o = <<>>
Val(o) == o[1]

(* ------------------------------ schemas ------------------------------- *)
StrategyParameterType == {"int", "float", "bool", "string", "source", "resolution"}

\* METRIC_INFO: property key under which a metric arrives in a metrics bag.
PropertyKey(metric) ==
    CASE metric = "net-profit"    -> "netProfit"
      [] metric = "profit-factor" -> "profitFactor"
      [] metric = "sharpe"        -> "sharpe"
      [] metric = "sortino"       -> "sortino"
      [] metric = "max-dd-pct"    -> "maxDrawdownPct"
      [] metric = "win-rate"      -> "winRatePct"
      [] metric = "trades"        -> "numberOfTrades"
      [] metric = "drawdown"      -> "maxDrawdownPct"
      [] metric = "custom"        -> "customMetric"
      [] OTHER                    -> metric

\* ParameterRange.ensure_range: max <= min is rejected.
ensure_range(range) == ~(range.max <= range.min)

\* OptimisationSettings.trials bounds.
TrialsValid(trials) == trials > TrialsGt /\ trials < TrialsLt

\* StartMessage.model_validate on a start message: every range and the
\* trial budget must validate; nothing else of the configuration is checked.
StartValid(config) ==
    /\ \A i \in DOMAIN config.params : ensure_range(config.params[i].range)
    /\ TrialsValid(config.settings.trials)

(* --------------------------- configurations --------------------------- *)
Range(lo, hi, step) == [min |-> lo, max |-> hi, step |-> step]
Param(id, type, enabled, range) ==
    [param_id |-> id, type |-> type, enabled |-> enabled, range |-> range]

Settings(metric, trials, filters) ==
    [metric |-> metric, trials |-> trials, filters |-> filters]

\* Configurations whose optimisation runs: an int dimension without
\* filters, and a float dimension next to a bool and a disabled one with a
\* filter on the target metric.
RunningShapes ==
    { [params  |-> <<Param("x", "int", TRUE, Range(0, 2, None))>>,
       filters |-> <<>>],
      [params  |-> <<Param("y", "float", TRUE, Range(1, 3, Some(1))),
                     Param("b", "bool", TRUE, Range(0, 1, None)),
                     Param("z", "int", FALSE, Range(0, 5, None))>>,
       filters |-> <<[metric |-> "net-profit", comparator |-> ">=",
                      value |-> 2]>>] }

\* Parameter lists that leave nothing to optimise or that are out of range.
OtherParamLists ==
    { <<Param("x", "int", FALSE, Range(0, 2, None))>>,
      <<Param("m", "string", TRUE, Range(0, 2, None))>>,
      <<>>,
      <<Param("x", "int", TRUE, Range(2, 2, None))>>,
      <<Param("x", "int", TRUE, Range(0, 2, Some(-1)))>>,
      <<Param("y", "float", TRUE, Range(0, 2, Some(0)))>> }

Configs ==
    { [params |-> s.params,
       settings |-> Settings("net-profit", t, s.filters)]
        : s \in RunningShapes, t \in {0, 1, MaxTrials, TrialsLt} }
    \cup
    { [params |-> p, settings |-> Settings("net-profit", t, <<>>)]
        : p \in OtherParamLists, t \in {1, TrialsLt} }

(* ---------------------------- distributions --------------------------- *)
NumericEnabled(param) == param.enabled /\ param.type \in {"int", "float"}

\* int(param.range.step or 1)
IntStep(range) ==
    IF IsNone(range.step) \/ Val(range.step) = 0 THEN 1 ELSE Val(range.step)

\* IntDistribution(low, high, step) / FloatDistribution(low, high, step)
DistOf(param) ==
    IF param.type = "int"
    THEN [kind |-> "int", low |-> param.range.min, high |-> param.range.max,
          step |-> Some(IntStep(param.range))]
    ELSE [kind |-> "float", low |-> param.range.min, high |-> param.range.max,
          step |-> param.range.step]

\* The distribution constructors raise ValueError on a step <= 0 or low > high.
DistRaises(param) ==
    LET d == DistOf(param)
    IN  \/ d.low > d.high
        \/ ~IsNone(d.step) /\ Val(d.step) <= 0

\* _build_distributions: raises, or maps each enabled int/float parameter id
\* to its distribution (a later parameter with the same id overwrites).
BuildRaises(config) ==
    \E i \in DOMAIN config.params :
        NumericEnabled(config.params[i]) /\ DistRaises(config.params[i])

BuildDistributions(config) ==
    LET ps  == config.params
        idx == {i \in DOMAIN ps : NumericEnabled(ps[i])}
        ids == {ps[i].param_id : i \in idx}
        last(id) == CHOOSE i \in idx :
                        /\ ps[i].param_id = id
                        /\ \A j \in idx : ps[j].param_id = id => j <= i
    IN  [id \in ids |-> DistOf(ps[last(id)])]

(* ------------------------------- sampler ------------------------------ *)
\* Mutant of tell: the study is told twice.
tell_again(study_, number, objective) ==
    [study_ EXCEPT !.told = @ \o <<<<number, objective>>, <<number, objective>>>>]

\* study.tell(trial, evaluation["objective"]): the study records the
\* objective of the trial.
tell(study_, number, objective) ==
    [study_ EXCEPT !.told = Append(@, <<number, objective>>)]

\* Mutants of AskNumber: every ask numbered 0, and numbering from 1.
AskNumberRestart(study) == 0
AskNumberOneBased(study) == study.asked + 1

\* study.ask numbers its trials densely from 0: the number of the next trial
\* is the count of trials the study has created so far.
AskNumber(study) == study.asked

\* The value the sampler suggests inside a distribution, as a function of
\* its seed and the trial number (a point of the distribution's grid).
Suggest(dist, seed, number) ==
    LET step == IF IsNone(dist.step) THEN 1 ELSE Val(dist.step)
        n    == ((dist.high - dist.low) \div step) + 1
    IN  dist.low + step * ((seed + number) % n)

\* trial.params after study.ask(distributions)
TrialParams(distributions, seed, number) ==
    [id \in DOMAIN distributions |-> Suggest(distributions[id], seed, number)]

\* _pythonise_params: one entry per distribution name.
pythonise_params(trial_params, distributions) ==
    [name \in DOMAIN distributions |-> trial_params[name]]

(* ----------------------------- evaluation ----------------------------- *)
\* dict.get: None when the key is absent.
Get(metrics, key) == IF key \in DOMAIN metrics THEN Some(metrics[key]) ELSE None

\* Python `a or b` on optional numbers: b when a is None or 0.
PyOr(a, b) == IF IsNone(a) \/ Val(a) = 0 THEN b ELSE a

\* _extract_metric_value
extract_metric_value(config, metrics) ==
    PyOr(Get(metrics, PropertyKey(config.settings.metric)),
         Get(metrics, config.settings.metric))

\* Mutant of compare: >= and <= taken for the strict comparisons.
compare_strict(left, right, comparator) ==
    CASE comparator = ">=" -> left > right
      [] comparator = "<=" -> left < right
      [] comparator = ">"  -> left > right
      [] comparator = "<"  -> left < right
      [] OTHER             -> left = right

\* _compare
compare(left, right, comparator) ==
    CASE comparator = ">=" -> left >= right
      [] comparator = "<=" -> left <= right
      [] comparator = ">"  -> left > right
      [] comparator = "<"  -> left < right
      [] OTHER             -> left = right

\* The reason one filter contributes (None when it passes).
FilterReason(flt, metrics) ==
    LET metric_value == Get(metrics, PropertyKey(flt.metric))
    IN  IF IsNone(metric_value) THEN Some(<<flt.metric, "unavailable">>)
        ELSE IF ~compare(Val(metric_value), flt.value, flt.comparator)
             THEN Some(<<flt.metric, "fails">>)
             ELSE None

RECURSIVE FilterReasons(_, _)
FilterReasons(filters, metrics) ==
    IF filters = <<>> THEN <<>>
    ELSE FilterReason(Head(filters), metrics) \o FilterReasons(Tail(filters), metrics)

\* _evaluate_filters: (not reasons, reasons)
evaluate_filters(config, metrics) ==
    LET reasons == FilterReasons(config.settings.filters, metrics)
    IN  [passed |-> reasons = <<>>, reasons |-> reasons]

\* Mutant of evaluate_trial: the objective is the raw target value whether or
\* not the filters pass.
evaluate_trial_raw(config, metrics) ==
    LET metric_value == extract_metric_value(config, metrics)
        flt == evaluate_filters(config, metrics)
    IN  IF IsNone(metric_value)
        THEN [metric_value |-> None, filters_passed |-> FALSE,
              filter_reasons |-> <<<<config.settings.metric, "unavailable">>>>,
              objective |-> PENALTY_SCORE]
        ELSE [metric_value |-> metric_value, filters_passed |-> flt.passed,
              filter_reasons |-> flt.reasons,
              objective |-> Val(metric_value)]

\* _evaluate_trial
evaluate_trial(config, metrics) ==
    LET metric_value == extract_metric_value(config, metrics)
        flt == evaluate_filters(config, metrics)
    IN  IF IsNone(metric_value)
        THEN [metric_value |-> None, filters_passed |-> FALSE,
              filter_reasons |-> <<<<config.settings.metric, "unavailable">>>>,
              objective |-> PENALTY_SCORE]
        ELSE [metric_value |-> metric_value, filters_passed |-> flt.passed,
              filter_reasons |-> flt.reasons,
              objective |-> IF flt.passed THEN Val(metric_value) ELSE PENALTY_SCORE]

\* Mutants of update_best_snapshot: the latest passing trial always replaces
\* the best; the filter verdict is not consulted.
update_best_latest(best, number, params, metrics, evaluation) ==
    IF ~evaluation.filters_passed \/ IsNone(evaluation.metric_value) THEN best
    ELSE Some([metric |-> Val(evaluation.metric_value), trial |-> number,
               params |-> params, metrics |-> metrics])
update_best_unfiltered(best, number, params, metrics, evaluation) ==
    IF IsNone(evaluation.metric_value) THEN best
    ELSE IF IsNone(best) \/ Val(evaluation.metric_value) > Val(best).metric
         THEN Some([metric |-> Val(evaluation.metric_value), trial |-> number,
                    params |-> params, metrics |-> metrics])
         ELSE best

\* Mutant of update_best_snapshot: the snapshot is left for later.
update_best_later(best, number, params, metrics, evaluation) == best

\* _update_best_snapshot: the new value of best_snapshot.
update_best_snapshot(best, number, params, metrics, evaluation) ==
    IF ~evaluation.filters_passed \/ IsNone(evaluation.metric_value) THEN best
    ELSE IF IsNone(best) \/ Val(evaluation.metric_value) > Val(best).metric
         THEN Some([metric |-> Val(evaluation.metric_value), trial |-> number,
                    params |-> params, metrics |-> metrics])
         ELSE best

\* Sampler seeds (OPTUNA_SAMPLER_SEED) a session may be built with.
Seeds == {0, 1}

\* Metrics bags a client may report.
Bags ==
    { [k \in {"netProfit"} |-> 1],
      [k \in {"netProfit"} |-> 2],
      [k \in {} |-> 0] }

(* ------------------------------ messages ------------------------------ *)
\* Client -> server payloads. A payload that is not a JSON object has no
\* type (""); a trial-result may fail TrialResultMessage validation.
StartMsg(c) == [json |-> "object", type |-> "start", config |-> c]
ResultMsg(k, bag) ==
    [json |-> "object", type |-> "trial-result", valid |-> TRUE,
     trial |-> k, payload |-> [metrics |-> bag]]
InvalidResultMsg == [json |-> "object", type |-> "trial-result", valid |-> FALSE]
StopMsg == [json |-> "object", type |-> "stop"]
UnknownMsg == [json |-> "object", type |-> "ping"]
NonObjectMsg == [json |-> "array", type |-> ""]

ClientMessages(c) ==
    {StartMsg(c), InvalidResultMsg, StopMsg, UnknownMsg, NonObjectMsg}
        \cup {ResultMsg(k, b) : k \in 0 .. MaxTrials - 1, b \in Bags}

IsObject(m) == m.json = "object"

(* ------------------------------ transport ----------------------------- *)
\* websocket.send_json / websocket.close hand a message to the channel.
\* Once the application side is DISCONNECTED every send raises RuntimeError;
\* towards a peer that has gone the server raises either an OSError, which
\* surfaces as WebSocketDisconnect and marks the application side
\* DISCONNECTED, or a RuntimeError, depending on the ASGI server.
SendRaises(peerState, appState) ==
    IF appState = "DISCONNECTED" THEN "RuntimeError"
    ELSE IF peerState = "gone_os" THEN "WebSocketDisconnect"
    ELSE IF peerState = "gone_rt" THEN "RuntimeError"
    ELSE "none"

AppAfterSend(peerState, appState) ==
    IF appState = "CONNECTED" /\ peerState = "gone_os" THEN "DISCONNECTED"
    ELSE appState

\* Mutant of Emit: a frame overtakes the frames sent before it.
EmitOvertaking(log, frame, peerState, appState) ==
    <<frame @@ [delivered |-> SendRaises(peerState, appState) = "none"]>> \o log

\* The frame as logged: every frame handed to send_json, with whether the
\* send went through. _safe_send swallows both exceptions a send can raise.
Emit(log, frame, peerState, appState) ==
    Append(log, frame @@ [delivered |-> SendRaises(peerState, appState) = "none"])

\* Mutant of CloseEscapes: websocket.close() left unguarded.
CloseEscapesUnguarded(exc) == exc # "none"

\* _send_completion: `except RuntimeError: pass` around websocket.close().
CloseEscapes(exc) == exc \notin {"none", "RuntimeError"}

\* Mutant of CompletionReason: the stop flag is not consulted.
CompletionReasonFinished(stop) == "finished"

\* _send_completion: reason = "stopped" if self.stop_requested else "finished"
CompletionReason(stop) == IF stop THEN "stopped" ELSE "finished"

\* Mutant of LoopContinues: the budget test is off by one.
LoopContinuesInclusive(done, total, stop) == done <= total /\ ~stop

\* _optimise: while self.completed < total_trials and not self.stop_requested
LoopContinues(done, total, stop) == done < total /\ ~stop

\* Mutants of ResultMatches: any trial-result is taken for the awaited one;
\* none is; so is a result for an earlier trial.
ResultMatchesAny(message, trial_number) == TRUE
ResultMatchesNever(message, trial_number) == FALSE
ResultMatchesAtMost(message, trial_number) == message.trial <= trial_number

\* _wait_for_trial_result: message.trial == trial_number
ResultMatches(message, trial_number) == message.trial = trial_number

(* ------------------------------- state -------------------------------- *)
VARIABLES
    pc,             \* where run() stands
    inbox,          \* client messages in flight that the server may still read
    peer,           \* "open", or how sends fail once the client has gone
    app,            \* the server side of the channel (application_state)
    out,            \* frames handed to send_json, in order
    config,         \* self.config
    stop_requested, \* self.stop_requested
    completed,      \* self.completed
    best_snapshot,  \* self.best_snapshot
    distributions,  \* _optimise: distributions
    study,          \* the Optuna study: trials asked, objectives told
    trial,          \* _optimise: the trial asked and not yet told
    raised,         \* the exception run() ends with ("none": returns)
    reason,         \* _send_completion: reason ("" before it runs)
    seed,           \* self.sampler_seed
    client_config,  \* the configuration the client starts with
    first,          \* history: the first payload run() received
    cause,          \* history: what ended the loop
    abandoned,      \* history: the state when a trial was abandoned
    processed,      \* history: trial numbers of the results processed
    stop_sent,      \* history: what the client saw when it first sent stop
    ignored         \* history: a trial-result for another trial was ignored

\* The request/response server (opt_server.py) and the functions checked on
\* their own.
VARIABLES
    procs,          \* the server processes compared: globals, disk, RNG
    phase,          \* history: how the requests of the two processes relate
    plan,           \* the InitRequest fields the client sends
    moo,            \* a MultiObjectiveOptimizer whose front is updated
    codec,          \* a dimension, a user value and its encoding
    preview,        \* a /config/preview request and its response
    constraint,     \* a parameter vector under apply_parameter_constraints
    fresh,          \* fresh sessions of one process: the ids given, the files then
    threads,        \* worker threads inside observe, the requests accepted
    pair,           \* two streaming sessions, the study storage, the clock
    sdr             \* the bounds of one session under domain reduction

stream == <<pc, inbox, peer, app, out, config, stop_requested, completed,
            best_snapshot, distributions, study, trial, raised, reason, seed,
            client_config, first, cause, abandoned, processed, stop_sent,
            ignored>>

others == <<procs, phase, plan, moo, codec, preview, constraint,
           fresh, threads, pair, sdr>>

vars == <<stream, others>>

\* No request/response server runs and no function is under check.
OthersIdle ==
    /\ procs = <<>>
    /\ phase = ""
    /\ plan = None
    /\ moo = None
    /\ codec = None
    /\ preview = None
    /\ constraint = None
    /\ fresh = None
    /\ threads = None
    /\ pair = None
    /\ sdr = None

server == <<pc, app, out, config, stop_requested, completed, best_snapshot,
            distributions, study, trial, raised, reason, first, cause, abandoned,
            processed>>

NoStudy == [asked |-> -1, told |-> <<>>]

Frames(type) == {i \in DOMAIN out : out[i].type = type}

Init ==
    /\ pc = "expect_start"
    /\ inbox = <<>>
    /\ peer = "open"
    /\ app = "CONNECTED"
    /\ out = <<>>
    /\ config = None
    /\ stop_requested = FALSE
    /\ completed = 0
    /\ best_snapshot = None
    /\ distributions = <<>>
    /\ study = NoStudy
    /\ trial = None
    /\ raised = "none"
    /\ reason = ""
    /\ seed \in Seeds
    /\ client_config \in Configs
    /\ first = None
    /\ cause = ""
    /\ abandoned = None
    /\ processed = {}
    /\ stop_sent = None
    /\ ignored = FALSE
    /\ OthersIdle

(* ------------------------------- client ------------------------------- *)
\* A trial-result sent now can still be the awaited one when it is read: the
\* trial awaited then is numbered from completed on, and at most one higher
\* for each message ahead of it.
CanMatch(k) == completed <= k /\ k <= completed + Len(inbox)

\* The client sends any message while the server may still read one. The
\* metrics of a trial-result that cannot match any more are never read: the
\* empty bag stands for all of them.
ClientSend ==
    /\ peer = "open"
    /\ pc \notin {"completing", "closed"}
    /\ Len(inbox) < MaxInbox
    /\ \E m \in ClientMessages(client_config) :
          /\ IF m.type # "trial-result" THEN TRUE
             ELSE IF ~m.valid THEN TRUE
             ELSE CanMatch(m.trial) \/ DOMAIN m.payload.metrics = {}
          /\ inbox' = Append(inbox, m)
          /\ stop_sent' =
                IF m.type = "stop" /\ IsNone(stop_sent)
                THEN Some([seen |-> Cardinality(Frames("trial-complete")),
                           in_flight |-> Len(inbox)])
                ELSE stop_sent
    /\ UNCHANGED <<server, peer, seed, client_config, ignored, others>>

ClientDisconnect ==
    /\ peer = "open"
    /\ pc # "closed"
    /\ peer' \in {"gone_os", "gone_rt"}
    /\ UNCHANGED <<server, inbox, seed, client_config, stop_sent, ignored, others>>

(* ------------------------- run(): awaiting start ---------------------- *)
\* run() reads the channel in _expect_start_message and in
\* _wait_for_trial_result only: once the loop has ended nothing is read any
\* more, and what is still in flight is dropped from inbox.
\* _expect_start_message raises ValueError: a payload that is no object, a
\* type other than start, or a start that fails StartMessage validation.
StartRejected(m) ==
    IF ~IsObject(m) THEN TRUE
    ELSE IF m.type # "start" THEN TRUE
    ELSE ~StartValid(m.config)

\* The peer goes away before a first message: _receive_json_object sets
\* stop_requested and run() returns without sending or closing.
RunDisconnectBeforeStart ==
    /\ pc = "expect_start"
    /\ inbox = <<>>
    /\ peer # "open"
    /\ stop_requested' = TRUE
    /\ pc' = "closed"
    /\ cause' = "disconnect_before_start"
    /\ UNCHANGED <<inbox, peer, app, out, config, completed, best_snapshot,
                   distributions, study, trial, raised, reason, seed,
                   client_config, first, abandoned, processed, stop_sent,
                   ignored, others>>

\* except ValueError: send_json(error), close(), return. Neither call is
\* guarded, so a failing send ends run() with its exception.
RunRejectStart ==
    /\ pc = "expect_start"
    /\ inbox # <<>>
    /\ StartRejected(Head(inbox))
    /\ LET exc == SendRaises(peer, app)
       IN  /\ out' = Emit(out, [type |-> "error", message |-> "start"], peer, app)
           /\ raised' = exc
           /\ app' = IF exc = "none" THEN "DISCONNECTED" ELSE AppAfterSend(peer, app)
    /\ first' = Some(Head(inbox))
    /\ inbox' = <<>>
    /\ pc' = "closed"
    /\ cause' = "invalid_start"
    /\ UNCHANGED <<peer, config, stop_requested, completed, best_snapshot,
                   distributions, study, trial, reason, seed, client_config,
                   abandoned, processed, stop_sent, ignored, others>>

\* A valid start: self.config is set and status is sent (unguarded); then
\* _optimise builds the distributions and creates the study.
RunStart ==
    /\ pc = "expect_start"
    /\ inbox # <<>>
    /\ ~StartRejected(Head(inbox))
    /\ LET m   == Head(inbox)
           exc == SendRaises(peer, app)
           log == Emit(out, [type |-> "status"], peer, app)
       IN  /\ config' = Some(m.config)
           /\ first' = Some(m)
           /\ app' = AppAfterSend(peer, app)
           /\ IF exc # "none"
              THEN /\ out' = log
                   /\ raised' = exc
                   /\ pc' = "closed"
                   /\ cause' = "status_send"
                   /\ inbox' = <<>>
                   /\ UNCHANGED <<distributions, study>>
              ELSE IF BuildRaises(m.config)
              THEN /\ out' = log
                   /\ raised' = "ValueError"
                   /\ pc' = "completing"
                   /\ cause' = "build_error"
                   /\ inbox' = <<>>
                   /\ UNCHANGED <<distributions, study>>
              ELSE IF DOMAIN BuildDistributions(m.config) = {}
              THEN /\ out' = Emit(log, [type |-> "error", message |-> "no parameters"],
                                  peer, app)
                   /\ pc' = "completing"
                   /\ cause' = "no_distributions"
                   /\ inbox' = <<>>
                   /\ UNCHANGED <<distributions, study, raised>>
              ELSE /\ out' = log
                   /\ distributions' = BuildDistributions(m.config)
                   /\ study' = [asked |-> 0, told |-> <<>>]
                   /\ pc' = "loop"
                   /\ inbox' = Tail(inbox)
                   /\ UNCHANGED <<raised, cause>>
    /\ UNCHANGED <<peer, stop_requested, completed, best_snapshot, trial,
                   reason, seed, client_config, abandoned, processed, stop_sent,
                   ignored, others>>

(* --------------------------- _optimise loop --------------------------- *)
Total == Val(config).settings.trials

\* The loop condition fails: the loop ends.
LoopExit ==
    /\ pc = "loop"
    /\ ~LoopContinues(completed, Total, stop_requested)
    /\ pc' = "completing"
    /\ cause' = "loop_exit"
    /\ inbox' = <<>>
    /\ UNCHANGED <<peer, app, out, config, stop_requested, completed,
                   best_snapshot, distributions, study, trial, raised, reason,
                   seed, client_config, first, abandoned, processed, stop_sent,
                   ignored, others>>

\* _request_next_trial: study.ask returns a trial; its params go out in a
\* trial-request.
LoopAsk ==
    /\ pc = "loop"
    /\ LoopContinues(completed, Total, stop_requested)
    /\ LET number == AskNumber(study)
           params == pythonise_params(TrialParams(distributions, seed, number),
                                      distributions)
       IN  /\ study' = [study EXCEPT !.asked = @ + 1]
           /\ trial' = Some([number |-> number, params |-> params])
           /\ out' = Emit(out, [type |-> "trial-request", trial |-> number,
                                params |-> params], peer, app)
    /\ app' = AppAfterSend(peer, app)
    /\ pc' = "wait_result"
    /\ UNCHANGED <<inbox, peer, config, stop_requested, completed,
                   best_snapshot, distributions, raised, reason, seed,
                   client_config, first, cause, abandoned, processed, stop_sent,
                   ignored, others>>

\* _request_next_trial: study.ask raises; an error is sent and the loop
\* breaks on trial None.
LoopAskFails ==
    /\ pc = "loop"
    /\ LoopContinues(completed, Total, stop_requested)
    /\ out' = Emit(out, [type |-> "error", message |-> "ask"], peer, app)
    /\ app' = AppAfterSend(peer, app)
    /\ pc' = "completing"
    /\ cause' = "sampler"
    /\ inbox' = <<>>
    /\ UNCHANGED <<peer, config, stop_requested, completed,
                   best_snapshot, distributions, study, trial, raised, reason,
                   seed, client_config, first, abandoned, processed, stop_sent,
                   ignored, others>>

Abandon == Some([trial |-> Val(trial).number, completed |-> completed,
                 told |-> Len(study.told), sent |-> Len(out)])

\* _receive_message raises ValueError: no object, a second start, an unknown
\* type, or a trial-result that fails validation. Nothing in _optimise or
\* run() catches it: the finally clause runs and run() ends with it.
ProtocolError(m) ==
    IF ~IsObject(m) THEN TRUE
    ELSE IF m.type = "trial-result" THEN ~m.valid
    ELSE m.type # "stop"

WaitProtocolError ==
    /\ pc = "wait_result"
    /\ inbox # <<>>
    /\ ProtocolError(Head(inbox))
    /\ inbox' = <<>>
    /\ raised' = "ValueError"
    /\ pc' = "completing"
    /\ cause' = "protocol"
    /\ abandoned' = Abandon
    /\ UNCHANGED <<peer, app, out, config, stop_requested, completed,
                   best_snapshot, distributions, study, trial, reason, seed,
                   client_config, first, processed, stop_sent,
                   ignored, others>>

\* A stop message: stop_requested is set and OptimisationInterrupted breaks
\* the loop.
WaitStop ==
    /\ pc = "wait_result"
    /\ inbox # <<>>
    /\ IsObject(Head(inbox))
    /\ Head(inbox).type = "stop"
    /\ inbox' = <<>>
    /\ stop_requested' = TRUE
    /\ pc' = "completing"
    /\ cause' = "stop"
    /\ abandoned' = Abandon
    /\ UNCHANGED <<peer, app, out, config, completed, best_snapshot,
                   distributions, study, trial, raised, reason, seed,
                   client_config, first, processed, stop_sent,
                   ignored, others>>

\* The peer has gone: receive_json raises WebSocketDisconnect,
\* _receive_json_object sets stop_requested, the loop breaks.
WaitDisconnect ==
    /\ pc = "wait_result"
    /\ inbox = <<>>
    /\ peer # "open"
    /\ stop_requested' = TRUE
    /\ pc' = "completing"
    /\ cause' = "disconnect"
    /\ abandoned' = Abandon
    /\ inbox' = <<>>
    /\ UNCHANGED <<peer, app, out, config, completed, best_snapshot,
                   distributions, study, trial, raised, reason, seed,
                   client_config, first, processed, stop_sent,
                   ignored, others>>

IsResult(m) == IsObject(m) /\ m.type = "trial-result" /\ m.valid

\* A trial-result for another trial number: logged, the wait goes on.
WaitMismatch ==
    /\ pc = "wait_result"
    /\ inbox # <<>>
    /\ IsResult(Head(inbox))
    /\ ~ResultMatches(Head(inbox), Val(trial).number)
    /\ inbox' = Tail(inbox)
    /\ ignored' = TRUE
    /\ UNCHANGED <<server, peer, seed, client_config, stop_sent, others>>

\* The matching trial-result: evaluate, update best, tell the study, count,
\* send trial-complete.
WaitResult ==
    /\ pc = "wait_result"
    /\ inbox # <<>>
    /\ IsResult(Head(inbox))
    /\ ResultMatches(Head(inbox), Val(trial).number)
    /\ LET t          == Val(trial)
           metrics    == Head(inbox).payload.metrics
           evaluation == evaluate_trial(Val(config), metrics)
           best       == update_best_snapshot(best_snapshot, t.number, t.params,
                                              metrics, evaluation)
       IN  /\ best_snapshot' = best
           /\ study' = tell(study, t.number, evaluation.objective)
           /\ completed' = completed + 1
           /\ out' = Emit(out,
                          [type |-> "trial-complete", trial |-> t.number,
                           params |-> t.params, metrics |-> metrics,
                           passedFilters |-> evaluation.filters_passed,
                           filterReasons |-> evaluation.filter_reasons,
                           objective |-> evaluation.objective,
                           progress |-> [completed |-> completed + 1,
                                         total |-> Total],
                           best |-> best],
                          peer, app)
    /\ app' = AppAfterSend(peer, app)
    /\ inbox' = Tail(inbox)
    /\ processed' = processed \cup {Head(inbox).trial}
    /\ trial' = None
    /\ pc' = "loop"
    /\ UNCHANGED <<peer, config, stop_requested, distributions, raised, reason,
                   seed, client_config, first, cause, abandoned, stop_sent,
                   ignored, others>>

(* --------------------------- _send_completion ------------------------- *)
\* finally: complete goes out through _safe_send, then the channel is
\* closed; a pending exception is raised again afterwards.
SendCompletion ==
    /\ pc = "completing"
    /\ LET why      == CompletionReason(stop_requested)
           app1     == AppAfterSend(peer, app)
           closeExc == SendRaises(peer, app1)
       IN  /\ reason' = why
           /\ out' = Emit(out, [type |-> "complete", reason |-> why,
                                best |-> best_snapshot], peer, app)
           /\ raised' = IF CloseEscapes(closeExc) THEN closeExc ELSE raised
    /\ app' = "DISCONNECTED"
    /\ pc' = "closed"
    /\ UNCHANGED <<inbox, peer, config, stop_requested, completed,
                   best_snapshot, distributions, study, trial, seed,
                   client_config, first, cause, abandoned, processed, stop_sent,
                   ignored, others>>

Next ==
    \/ ClientSend
    \/ ClientDisconnect
    \/ RunDisconnectBeforeStart
    \/ RunRejectStart
    \/ RunStart
    \/ LoopExit
    \/ LoopAsk
    \/ LoopAskFails
    \/ WaitProtocolError
    \/ WaitStop
    \/ WaitDisconnect
    \/ WaitMismatch
    \/ WaitResult
    \/ SendCompletion

Spec == Init /\ [][Next]_vars

(* ------------------ sessions with an answering client ----------------- *)
\* The same session against a client that stays connected, starts with a
\* valid configuration and answers every trial-request with the matching
\* trial-result, while the sampler proposes every trial it is asked for.
\* The metrics it reports range over negative, zero and positive values,
\* the target under its property key (netProfit) or under the metric's own
\* name (net-profit), and the filtered metric (winRatePct) present or not.
EvalBags ==
    { [k \in {} |-> 0],
      [k \in {"netProfit", "winRatePct"} |-> IF k = "netProfit" THEN -1 ELSE 1],
      [k \in {"netProfit", "winRatePct"} |-> IF k = "netProfit" THEN 0 ELSE 2],
      [k \in {"netProfit", "winRatePct"} |-> IF k = "netProfit" THEN 2 ELSE 0],
      [k \in {"netProfit", "winRatePct"} |-> 1],
      [k \in {"netProfit"} |-> 2],
      [k \in {"winRatePct"} |-> 1],
      [k \in {"netProfit", "net-profit", "winRatePct"} |->
            IF k = "netProfit" THEN 0 ELSE 1] }

Filter(metric, comparator, value) ==
    [metric |-> metric, comparator |-> comparator, value |-> value]

\* No filter, one filter on the win rate for each comparator, and a filter
\* on the win rate next to one on the target metric.
EvalFilterLists ==
    { <<>> }
    \cup { <<Filter("win-rate", c, 1)>> : c \in {">=", "<=", ">", "<", "="} }
    \cup { <<Filter("win-rate", ">=", 1), Filter("net-profit", ">", 0)>> }

EvalConfigs ==
    { [params |-> <<Param("x", "int", TRUE, Range(0, 2, None))>>,
       settings |-> Settings("net-profit", t, f)]
        : t \in {1, MaxTrials}, f \in EvalFilterLists }

EvalInit ==
    /\ pc = "expect_start"
    /\ inbox = <<>>
    /\ peer = "open"
    /\ app = "CONNECTED"
    /\ out = <<>>
    /\ config = None
    /\ stop_requested = FALSE
    /\ completed = 0
    /\ best_snapshot = None
    /\ distributions = <<>>
    /\ study = NoStudy
    /\ trial = None
    /\ raised = "none"
    /\ reason = ""
    /\ seed \in Seeds
    /\ client_config \in EvalConfigs
    /\ first = None
    /\ cause = ""
    /\ abandoned = None
    /\ processed = {}
    /\ stop_sent = None
    /\ ignored = FALSE
    /\ OthersIdle

\* The client sends start, then one matching trial-result per trial-request.
ClientAnswers ==
    /\ peer = "open"
    /\ inbox = <<>>
    /\ \/ /\ pc = "expect_start"
          /\ inbox' = <<StartMsg(client_config)>>
       \/ /\ pc = "wait_result"
          /\ \E b \in EvalBags : inbox' = <<ResultMsg(Val(trial).number, b)>>
    /\ UNCHANGED <<server, peer, seed, client_config, stop_sent, ignored, others>>

EvalNext ==
    \/ ClientAnswers
    \/ RunStart
    \/ LoopAsk
    \/ WaitResult
    \/ LoopExit
    \/ SendCompletion

EvalSpec == EvalInit /\ [][EvalNext]_vars

(* ====================================================================== *)
(* Properties                                                             *)
(* ====================================================================== *)
Requests == Frames("trial-request")
Completes == Frames("trial-complete")
TerminalFrames == Frames("complete") \cup Frames("error")
Closed == pc = "closed"

\* C1: at most one trial-request is outstanding: when a trial-request is
\* emitted, the matching trial-result of every earlier trial-request has
\* been processed, whatever else the client sent in between.
C1_AtMostOneOutstanding ==
    /\ \A i \in Requests : \A j \in Requests :
          j < i => out[j].trial \in processed
    /\ Cardinality(Requests) <= Cardinality(processed) + 1

\* C1 witness: trial 1 is outstanding and a stale result for trial 0 is the
\* next message the server will read.
C1_Witness ==
    /\ pc = "wait_result"
    /\ Val(trial).number = 1
    /\ inbox # <<>>
    /\ IsResult(Head(inbox))
    /\ Head(inbox).trial = 0

\* C2: a session that has ended on one of the listed paths has emitted
\* exactly one terminal frame (a complete or an error), as its last frame,
\* and has closed the channel.
C2_OneTerminalFrame ==
    (Closed /\ cause \in {"invalid_start", "no_distributions", "sampler",
                           "protocol", "stop", "disconnect", "loop_exit"})
    => /\ Cardinality(TerminalFrames) = 1
       /\ Len(out) \in TerminalFrames
       /\ peer = "open" => app = "DISCONNECTED"

\* C3: completed never exceeds settings.trials, and a completion with
\* reason finished means completed equals settings.trials.
C3_BudgetHonoured ==
    ~IsNone(config)
    => /\ completed <= Total
       /\ reason = "finished" => completed = Total

\* C4: the trial numbers of the trial-request frames are 0, 1, 2, ... in
\* emission order: the n-th request carries number n - 1.
C4_DenseTrialNumbers ==
    \A i \in Requests :
        out[i].trial = Cardinality({j \in Requests : j < i})

\* C4 witness: the full budget of requests went out and the last trial was
\* abandoned.
C4_Witness ==
    /\ Cardinality(Requests) = MaxTrials
    /\ ~IsNone(abandoned)
    /\ Closed

\* C5: a protocol error on an inbound message while Running makes the server
\* emit an error frame and end with reason error.
C5_ProtocolErrorReported ==
    (Closed /\ cause = "protocol")
    => /\ Frames("error") # {}
       /\ reason = "error"

StopSeenAfter(n) ==
    /\ ~IsNone(stop_sent)
    /\ Val(stop_sent).seen = n
    /\ Val(stop_sent).in_flight = 0
    /\ Total > n

\* The index of the n-th trial-complete frame.
NthComplete(n) ==
    CHOOSE i \in Completes : Cardinality({j \in Completes : j <= i}) = n

RequestsAfter(i) == {j \in Requests : j > i}

\* C6 as claimed: when the client sends stop after it has seen exactly 2
\* trial-complete frames, no trial-request follows the second
\* trial-complete, and the session ends stopped with completed = 2.
C6_NoRequestAfterStop ==
    (StopSeenAfter(2) /\ cause \in {"", "stop"})
    => /\ RequestsAfter(NthComplete(2)) = {}
       /\ Closed => (reason = "stopped" /\ completed = 2)

\* C6 as amended: stop sent after exactly 2 trial-complete frames, with
\* nothing else in flight: at most one trial-request follows the second
\* trial-complete, it is the request for trial 2, no trial-complete is
\* emitted for it and completed stays 2; when the server reads the stop that
\* request has gone out, and the session ends with reason stopped.
C6_OneRequestAfterStop ==
    StopSeenAfter(2)
    => /\ completed = 2
       /\ Cardinality(Completes) = 2
       /\ Cardinality(RequestsAfter(NthComplete(2))) <= 1
       /\ \A j \in RequestsAfter(NthComplete(2)) : out[j].trial = 2
       /\ cause = "stop" => Cardinality(RequestsAfter(NthComplete(2))) = 1
       /\ (Closed /\ cause = "stop") => reason = "stopped"

\* C6 witness: the stop sent after two trial-complete frames was read and
\* the session has ended.
C6_Witness == StopSeenAfter(2) /\ cause = "stop" /\ Closed

\* The trial abandoned when the loop was interrupted stays abandoned: not
\* counted, not told, no trial-complete, and nothing but the terminal frame
\* follows.
TrialAbandoned ==
    LET a == Val(abandoned)
    IN  /\ completed = a.completed
        /\ Len(study.told) = a.told
        /\ \A i \in Completes : out[i].trial # a.trial
        /\ \A i \in DOMAIN out :
              i > a.sent => out[i].type \notin {"trial-request", "trial-complete"}

\* C7: once a stop has been processed while a result was awaited, the
\* outstanding trial is abandoned, no trial-request follows, and every
\* complete frame carries reason stopped.
C7_StopAbandons ==
    cause = "stop"
    => /\ TrialAbandoned
       /\ \A i \in Frames("complete") : out[i].reason = "stopped"
       /\ Closed => (reason = "stopped" /\ out[Len(out)].type = "complete")

\* C7 witness: a stop was processed after one completed trial and the
\* session has ended.
C7_Witness == cause = "stop" /\ Closed /\ completed = 1

C9_SamplerErrorTerminal ==
    cause = "sampler"
    => /\ Cardinality(Requests) = completed
       /\ Closed => (Cardinality(TerminalFrames) = 1 /\ reason # "finished")

\* What the specification rejects in AwaitingConfig: a first message that is
\* no start, or a configuration without an enabled parameter, with a
\* numeric range where min >= max or step <= 0, or with trials outside
\* 1..5000.
NumericParam(param) == param.type \in {"int", "float"}
BadRange(param) ==
    NumericParam(param)
    /\ (param.range.min >= param.range.max
        \/ (~IsNone(param.range.step) /\ Val(param.range.step) <= 0))
ConfigRejected(c) ==
    \/ \A i \in DOMAIN c.params : ~c.params[i].enabled
    \/ \E i \in DOMAIN c.params : BadRange(c.params[i])
    \/ c.settings.trials < 1
    \/ c.settings.trials > 5000
FirstRejected ==
    IF IsNone(first) THEN FALSE
    ELSE IF Val(first).type # "start" THEN TRUE
    ELSE ConfigRejected(Val(first).config)

\* C10: a rejected first message is answered by an error and nothing else:
\* no status, trial-request or complete frame, and the channel is closed.
C10_InvalidStartRejected ==
    FirstRejected
    => /\ Frames("error") # {}
       /\ Frames("status") = {}
       /\ Requests = {}
       /\ Frames("complete") = {}
       /\ (Closed /\ peer = "open") => app = "DISCONNECTED"

(* --------------------------- best snapshot ---------------------------- *)
\* The frames that carry a best snapshot.
BestFrames == Completes \cup Frames("complete")

\* C11: over the frames of a session that carry best, best.metric never
\* decreases and a best that was set never returns to null; the session's
\* best snapshot is the one the last such frame carried.
C11_BestNeverDecreases ==
    /\ \A i \in BestFrames : \A j \in BestFrames :
          (i < j /\ ~IsNone(out[i].best))
          => /\ ~IsNone(out[j].best)
             /\ Val(out[j].best).metric >= Val(out[i].best).metric
    /\ \A i \in BestFrames :
          (\A j \in BestFrames : j <= i) => out[i].best = best_snapshot

\* C11 witness: a best was improved by a later trial, and a still later
\* trial that passed with a lower metric left it in place.
C11_Witness ==
    \E i \in Completes : \E j \in Completes : \E l \in Completes :
        /\ i < j /\ j < l
        /\ ~IsNone(out[i].best)
        /\ Val(out[j].best).metric > Val(out[i].best).metric
        /\ out[l].passedFilters
        /\ out[l].objective < Val(out[j].best).metric
        /\ out[l].best = out[j].best

(* ------------------- the specified evaluation of a result -------------- *)
\* The target metric is present in a metrics bag under its property key or
\* under the metric's own name.
TargetKeys(c) == {PropertyKey(c.settings.metric), c.settings.metric}
LacksTarget(c, metrics) == TargetKeys(c) \cap DOMAIN metrics = {}

\* The comparison a filter asks for.
Holds(value, comparator, threshold) ==
    \/ comparator = ">=" /\ (value > threshold \/ value = threshold)
    \/ comparator = "<=" /\ (value < threshold \/ value = threshold)
    \/ comparator = ">"  /\ value > threshold
    \/ comparator = "<"  /\ value < threshold
    \/ comparator = "="  /\ value = threshold

\* A filter passes: its metric is present and the comparison holds.
FilterHolds(flt, metrics) ==
    IF PropertyKey(flt.metric) \in DOMAIN metrics
    THEN Holds(metrics[PropertyKey(flt.metric)], flt.comparator, flt.value)
    ELSE FALSE

AllFiltersHold(c, metrics) ==
    \A n \in DOMAIN c.settings.filters : FilterHolds(c.settings.filters[n], metrics)

\* A result that lacks the target metric or fails a configured filter.
Penalised(c, metrics) == LacksTarget(c, metrics) \/ ~AllFiltersHold(c, metrics)

\* The best snapshot as it stood before the trial-complete frame i.
PrevBest(i) ==
    LET before == {j \in Completes : j < i}
    IN  IF before = {} THEN None
        ELSE out[CHOOSE j \in before : \A l \in before : l <= j].best

\* C12: a trial whose result fails a configured filter or lacks the target
\* metric leaves the best snapshot as it was, and no frame ever carries that
\* trial as best, whatever its raw metrics and whatever the earlier best.
C12_PenalisedNeverBest ==
    \A i \in Completes :
        Penalised(Val(config), out[i].metrics)
        => /\ out[i].best = PrevBest(i)
           /\ \A j \in BestFrames :
                 ~IsNone(out[j].best) => Val(out[j].best).trial # out[i].trial

\* C12 witness: a trial failed its filter while no best existed, and a later
\* one failed it with a raw target value above the best of that time.
C12_Witness ==
    \E i \in Completes : \E l \in Completes :
        /\ ~AllFiltersHold(Val(config), out[i].metrics)
        /\ IsNone(PrevBest(i))
        /\ ~AllFiltersHold(Val(config), out[l].metrics)
        /\ ~IsNone(PrevBest(l))
        /\ "netProfit" \in DOMAIN out[l].metrics
        /\ out[l].metrics["netProfit"] > Val(PrevBest(l)).metric

\* The value of the target metric in a bag that holds it.
TargetValue(c, metrics) ==
    IF PropertyKey(c.settings.metric) \in DOMAIN metrics
    THEN metrics[PropertyKey(c.settings.metric)]
    ELSE metrics[c.settings.metric]

\* C13: a result that holds the target metric, with any numeric value, and
\* passes every configured filter is reported with passedFilters true and
\* the target value as its objective; every other result is reported with
\* the penalty as its objective.
C13_ObjectiveIsTargetOrPenalty ==
    \A i \in Completes :
        LET c == Val(config)
            m == out[i].metrics
        IN  IF ~LacksTarget(c, m) /\ AllFiltersHold(c, m)
            THEN out[i].passedFilters /\ out[i].objective = TargetValue(c, m)
            ELSE out[i].objective = PENALTY_SCORE

\* The configured filters that do not pass on a metrics bag.
FailingFilters(c, metrics) ==
    {n \in DOMAIN c.settings.filters : ~FilterHolds(c.settings.filters[n], metrics)}

C15_PenaltyIsNoError ==
    \A i \in Completes :
        Penalised(Val(config), out[i].metrics)
        => /\ ~out[i].passedFilters
           /\ out[i].objective = PENALTY_SCORE
           /\ (i = Len(out))
              => /\ raised = "none"
                 /\ \/ pc = "loop" /\ cause = ""
                    \/ pc = "completing" /\ cause = "loop_exit" /\ completed = Total
           /\ (i < Len(out) /\ out[i].progress.completed < out[i].progress.total)
              => \/ /\ out[i + 1].type = "trial-request"
                    /\ out[i + 1].trial = out[i].trial + 1
                 \/ /\ out[i + 1].type = "error"
                    /\ cause = "sampler"
           /\ (i < Len(out) /\ out[i].progress.completed = out[i].progress.total)
              => out[i + 1].type = "complete"

\* C15 witness: a result without the target metric and one that failed the
\* filter were each followed by the next trial-request.
C15_Witness ==
    /\ \E i \in Completes :
          /\ LacksTarget(Val(config), out[i].metrics)
          /\ i < Len(out)
          /\ out[i + 1].type = "trial-request"
    /\ \E i \in Completes :
          /\ ~LacksTarget(Val(config), out[i].metrics)
          /\ ~AllFiltersHold(Val(config), out[i].metrics)
          /\ i < Len(out)
          /\ out[i + 1].type = "trial-request"

\* The next message the server reads is a valid trial-result.
ResultAtHead ==
    /\ pc = "wait_result"
    /\ inbox # <<>>
    /\ IsResult(Head(inbox))

\* C16: while the next message is a trial-result whose number is not the
\* outstanding trial's, no step changes completed, the best snapshot,
\* stop_requested or the study, none emits a frame, and the session keeps
\* waiting for the same trial; a trial-result with the outstanding number,
\* read after such a result was ignored, is processed: the trial is told,
\* counted and answered by its trial-complete.
C16_MismatchIgnored ==
    [][ /\ (ResultAtHead /\ Head(inbox).trial # Val(trial).number)
           => /\ UNCHANGED <<completed, best_snapshot, stop_requested, study,
                             out, pc, trial, raised, cause>>
              /\ Len(inbox') < Len(inbox) => (inbox' = Tail(inbox) /\ ignored')
        /\ (ResultAtHead /\ Head(inbox).trial = Val(trial).number /\ ignored
            /\ pc' # pc)
           => /\ pc' = "loop"
              /\ completed' = completed + 1
              /\ Len(study'.told) = Len(study.told) + 1
              /\ Len(out') = Len(out) + 1
              /\ out'[Len(out')].type = "trial-complete"
              /\ out'[Len(out')].trial = Val(trial).number
              /\ out'[Len(out')].metrics = Head(inbox).payload.metrics
      ]_vars

\* C16 witness: a result for another trial was ignored, and the session
\* still completed its whole budget and finished.
C16_Witness ==
    /\ ignored
    /\ Closed
    /\ reason = "finished"
    /\ completed = MaxTrials

\* C17: the frames leave in program order: status first, each trial-request
\* directly after the status or after the trial-complete of the trial
\* before it, each trial-complete directly after the trial-request of its
\* own trial, and a complete frame last; so the trial-complete of trial k
\* precedes the trial-request of trial k + 1.
C17_ProgramOrder ==
    /\ \A j \in Requests :
          out[j].trial > 0
          => \E i \in Completes : i < j /\ out[i].trial = out[j].trial - 1
    /\ \A i \in DOMAIN out :
          /\ out[i].type = "status" => i = 1
          /\ out[i].type = "trial-request"
             => /\ i > 1
                /\ \/ out[i - 1].type = "status" /\ out[i].trial = 0
                   \/ /\ out[i - 1].type = "trial-complete"
                      /\ out[i - 1].trial = out[i].trial - 1
          /\ out[i].type = "trial-complete"
             => /\ i > 1
                /\ out[i - 1].type = "trial-request"
                /\ out[i - 1].trial = out[i].trial
          /\ out[i].type = "complete" => i = Len(out)

\* C17 witness: a session that ran its whole budget of trials and ended.
C17_Witness ==
    /\ Cardinality(Completes) = MaxTrials
    /\ Cardinality(Requests) = MaxTrials
    /\ Frames("complete") # {}

\* C18: a session of budget N whose every trial-request was answered by the
\* matching trial-result has emitted, when it ends, exactly: status, then
\* for k = 0 .. N - 1 the trial-request and the trial-complete of trial k,
\* then complete with reason finished and the best of the last
\* trial-complete, which is null iff no trial passed its filters.
C18_AnsweredSession ==
    Closed
    => /\ Len(out) = 2 * Total + 2
       /\ out[1].type = "status"
       /\ \A k \in 0 .. Total - 1 :
             /\ out[2 * k + 2].type = "trial-request"
             /\ out[2 * k + 2].trial = k
             /\ out[2 * k + 3].type = "trial-complete"
             /\ out[2 * k + 3].trial = k
             /\ out[2 * k + 3].params = out[2 * k + 2].params
             /\ out[2 * k + 3].progress = [completed |-> k + 1, total |-> Total]
       /\ out[2 * Total + 2].type = "complete"
       /\ out[2 * Total + 2].reason = "finished"
       /\ out[2 * Total + 2].best = out[2 * Total + 1].best
       /\ IsNone(out[2 * Total + 2].best)
          <=> \A i \in Completes : ~out[i].passedFilters
       /\ \A i \in DOMAIN out : out[i].delivered
       /\ raised = "none"

\* C18 witness: a session of the largest budget ended with a best snapshot
\* although one of its trials was penalised.
C18_Witness ==
    /\ Closed
    /\ Total = MaxTrials
    /\ ~IsNone(out[Len(out)].best)
    /\ \E i \in Completes : ~out[i].passedFilters

\* C19: the best snapshot exists iff some completed trial of the session
\* passed all its filters with the target metric present in its result, and
\* every frame carries a best iff such a trial had completed by then.
C19_BestIffSomeTrialPassed ==
    /\ ~IsNone(best_snapshot)
       <=> \E i \in Completes : ~Penalised(Val(config), out[i].metrics)
    /\ \A j \in BestFrames :
          ~IsNone(out[j].best)
          <=> \E i \in Completes :
                 i <= j /\ ~Penalised(Val(config), out[i].metrics)

(* ---------------------------- trial params ---------------------------- *)
\* The ids of the enabled dimensions of a configuration, of whatever kind.
EnabledIds(c) == {c.params[i].param_id : i \in {j \in DOMAIN c.params : c.params[j].enabled}}

\* C20: the params of every trial-request map exactly the ids of the enabled
\* dimensions of the configuration, whatever their kind (int, float, bool,
\* string).
C20_ParamsCoverEnabled ==
    \A j \in Requests : DOMAIN out[j].params = EnabledIds(Val(config))

(* ====================================================================== *)
(* The request/response server (opt_server.py)                            *)
(* ====================================================================== *)
\* None of the streaming session's variables moves while the
\* request/response server or a single function is looked at.
StreamIdle ==
    /\ pc = "expect_start"
    /\ inbox = <<>>
    /\ peer = "open"
    /\ app = "CONNECTED"
    /\ out = <<>>
    /\ config = None
    /\ stop_requested = FALSE
    /\ completed = 0
    /\ best_snapshot = None
    /\ distributions = <<>>
    /\ study = NoStudy
    /\ trial = None
    /\ raised = "none"
    /\ reason = ""
    /\ seed = 0
    /\ client_config = None
    /\ first = None
    /\ cause = ""
    /\ abandoned = None
    /\ processed = {}
    /\ stop_sent = None
    /\ ignored = FALSE

(* ------------------------------ numbers ------------------------------- *)
\* scalarize_objectives divides by total_weight + 1e-6. The 1e-6 is kept as
\* a symbol e: a number is (sum + eps*e) / (weight + e) with integers sum,
\* eps and weight >= 0, and two numbers are compared exactly, e being
\* smaller than any ratio of the integers that occur.
Exact(t) == [sum |-> 0, eps |-> t, weight |-> 0]
Quotient(s, w) == [sum |-> s, eps |-> 0, weight |-> w]

\* a < b  iff  (a.sum + a.eps*e)(b.weight + e) < (b.sum + b.eps*e)(a.weight + e):
\* the coefficients of 1, e and e*e of the left product.
Coefs(a, b) == <<a.sum * b.weight, a.sum + a.eps * b.weight, a.eps>>

LexLess(u, v) ==
    \/ u[1] < v[1]
    \/ u[1] = v[1] /\ u[2] < v[2]
    \/ u[1] = v[1] /\ u[2] = v[2] /\ u[3] < v[3]

NumLess(a, b) == LexLess(Coefs(a, b), Coefs(b, a))
NumEq(a, b) == Coefs(a, b) = Coefs(b, a)

\* A dict without keys.
EmptyDict == [k \in {} |-> 0]

(* ----------------------- MultiObjectiveOptimizer ---------------------- *)
\* update_pareto_front: `if len(self.pareto_front) > 20`
FrontLimit == 20

\* __init__: metric_weights or {metric: 1.0 for metric in target_metrics}
MultiObjectiveOptimizer(target_metrics, metric_weights) ==
    [target_metrics |-> target_metrics,
     metric_weights |->
        IF DOMAIN metric_weights = {}
        THEN [m \in {target_metrics[i] : i \in DOMAIN target_metrics} |-> 1]
        ELSE metric_weights,
     pareto_front |-> <<>>]

\* scalarize_objectives, the loop from target_metrics[i] on: weighted_sum
\* and total_weight over the target metrics that are reported and weighted.
RECURSIVE WeightedSums(_, _, _)
WeightedSums(self, metrics, i) ==
    IF i > Len(self.target_metrics) THEN [sum |-> 0, weight |-> 0]
    ELSE LET metric == self.target_metrics[i]
             rest   == WeightedSums(self, metrics, i + 1)
         IN  IF metric \in DOMAIN metrics /\ metric \in DOMAIN self.metric_weights
             THEN [sum    |-> rest.sum + self.metric_weights[metric] * metrics[metric],
                   weight |-> rest.weight + self.metric_weights[metric]]
             ELSE rest

\* scalarize_objectives: weighted_sum / (total_weight + 1e-6)
scalarize_objectives(self, metrics) ==
    LET t == WeightedSums(self, metrics, 1) IN Quotient(t.sum, t.weight)

\* _dominates: over the target metrics both bags report, metrics1 is nowhere
\* lower and somewhere higher.
dominates(self, metrics1, metrics2) ==
    LET both == {i \in DOMAIN self.target_metrics :
                    /\ self.target_metrics[i] \in DOMAIN metrics1
                    /\ self.target_metrics[i] \in DOMAIN metrics2}
    IN  /\ \A i \in both :
              ~(metrics1[self.target_metrics[i]] < metrics2[self.target_metrics[i]])
        /\ \E i \in both :
              metrics1[self.target_metrics[i]] > metrics2[self.target_metrics[i]]

\* update_pareto_front, the for loop from pareto_front[i] on: the indices the
\* new solution dominates, until an existing solution dominates it (break).
RECURSIVE ScanFront(_, _, _, _)
ScanFront(self, metrics, i, dominated_indices) ==
    IF i > Len(self.pareto_front)
    THEN [dominated_indices |-> dominated_indices, is_dominated |-> FALSE]
    ELSE IF dominates(self, metrics, self.pareto_front[i].metrics)
    THEN ScanFront(self, metrics, i + 1, dominated_indices \cup {i})
    ELSE IF dominates(self, self.pareto_front[i].metrics, metrics)
    THEN [dominated_indices |-> dominated_indices, is_dominated |-> TRUE]
    ELSE ScanFront(self, metrics, i + 1, dominated_indices)

\* Mutant of PopIndices: the dominated solutions stay in the front.
PopNothing(front, indices) == front

\* for i in reversed(dominated_indices): self.pareto_front.pop(i)
RECURSIVE PopIndices(_, _)
PopIndices(front, indices) ==
    IF front = <<>> THEN <<>>
    ELSE LET n    == Len(front)
             init == PopIndices(SubSeq(front, 1, n - 1), indices)
         IN  IF n \in indices THEN init ELSE Append(init, front[n])

\* list.sort(key=scalarized_value, reverse=True) is stable: a solution goes
\* behind every solution whose value is not lower.
RECURSIVE InsertDescending(_, _)
InsertDescending(sorted, solution) ==
    IF sorted = <<>> THEN <<solution>>
    ELSE IF NumLess(Head(sorted).scalarized_value, solution.scalarized_value)
    THEN <<solution>> \o sorted
    ELSE <<Head(sorted)>> \o InsertDescending(Tail(sorted), solution)

RECURSIVE SortDescending(_)
SortDescending(front) ==
    IF front = <<>> THEN <<>>
    ELSE InsertDescending(SortDescending(SubSeq(front, 1, Len(front) - 1)),
                          front[Len(front)])

\* Keep the best FrontLimit solutions by scalarized value.
Truncate(front) ==
    IF Len(front) > FrontLimit
    THEN SubSeq(SortDescending(front), 1, FrontLimit)
    ELSE front

\* update_pareto_front: self afterwards.
update_pareto_front(self, params, metrics) ==
    LET solution == [params |-> params, metrics |-> metrics,
                     scalarized_value |-> scalarize_objectives(self, metrics)]
        scan     == ScanFront(self, metrics, 1, {})
    IN  IF scan.is_dominated THEN self
        ELSE [self EXCEPT !.pareto_front =
                 Truncate(Append(PopIndices(@, scan.dominated_indices), solution))]

(* ------------------------- sampling and coercion ---------------------- *)
\* Raw parameter values are real numbers; the model keeps them in halves
\* (raw 3 is 1.5), bounds and coerced values in units.
\* round(): half to even.
RoundHalves(h) ==
    LET q == h \div 2
    IN  IF h % 2 = 0 THEN q ELSE IF q % 2 = 0 THEN q ELSE q + 1

\* np.clip(v, lo, hi) on a raw value.
ClipHalves(h, lo, hi) ==
    IF h < 2 * lo THEN 2 * lo ELSE IF h > 2 * hi THEN 2 * hi ELSE h

\* coerce_params: bounds that are whole numbers make the value
\* int(round(np.clip(v, lo, hi))).
coerce_params(raw_params, pbounds) ==
    [k \in DOMAIN raw_params |->
        RoundHalves(ClipHalves(raw_params[k], pbounds[k][1], pbounds[k][2]))]

\* The state of the `random` module: seeded by the operating system when the
\* process starts, never by the server; every draw advances it.
Entropies == {0, 1}
RandomNext(state) == (state + 2) % 3

\* random_sample with one dimension: {k: random.uniform(lo, hi)}
random_sample(state, pbounds) ==
    [k \in DOMAIN pbounds |->
        2 * pbounds[k][1] + (state % (2 * (pbounds[k][2] - pbounds[k][1]) + 1))]

\* BayesianOptimization: register appends to res; max is the first result
\* with the highest target; suggest is a function of random_state and of the
\* results registered, in their order.
BayesianOptimization(random_state) == [random_state |-> random_state, res |-> <<>>]

register(optimizer, params, target) ==
    [optimizer EXCEPT !.res = Append(@, [params |-> params, target |-> target])]

RECURSIVE ResDigest(_, _)
ResDigest(res, pbounds) ==
    IF res = <<>> THEN 0
    ELSE LET n == Len(res)
             k == CHOOSE key \in DOMAIN pbounds : TRUE
         IN  ResDigest(SubSeq(res, 1, n - 1), pbounds)
             + n * (1 + res[n].params[k] + res[n].target.sum + res[n].target.eps)

suggest(optimizer, pbounds) ==
    [k \in DOMAIN pbounds |->
        2 * pbounds[k][1]
        + ((optimizer.random_state + ResDigest(optimizer.res, pbounds))
           % (2 * (pbounds[k][2] - pbounds[k][1]) + 1))]

\* optimizer.max: None without results.
OptimizerMax(optimizer) ==
    IF optimizer.res = <<>> THEN None
    ELSE LET best == CHOOSE i \in DOMAIN optimizer.res :
                        /\ \A j \in DOMAIN optimizer.res :
                              ~NumLess(optimizer.res[i].target, optimizer.res[j].target)
                        /\ \A j \in DOMAIN optimizer.res :
                              j < i => NumLess(optimizer.res[j].target,
                                               optimizer.res[i].target)
         IN  Some(optimizer.res[best])

(* ------------------------ floating-point numbers ---------------------- *)
\* Bits of a float's significand in the model (53 in the program); every
\* operation rounds its exact result to the nearest float, ties to even.
Precision == 7

RECURSIVE Pow2(_)
Pow2(k) == IF k = 0 THEN 1 ELSE 2 * Pow2(k - 1)

\* The float m * 2^e (m = 0, or 2^(Precision-1) <= m < 2^Precision).
Fl(m, e) == [m |-> m, e |-> e]
FNum(x) == IF x.e >= 0 THEN x.m * Pow2(x.e) ELSE x.m
FDen(x) == IF x.e >= 0 THEN 1 ELSE Pow2(-x.e)

Exponents == (-(Precision + 3))..4

\* n / d (n >= 0, d > 0) rounded to the nearest float, ties to even.
RoundFloat(n, d) ==
    IF n = 0 THEN Fl(0, 0)
    ELSE LET nn(e) == IF e >= 0 THEN n ELSE n * Pow2(-e)
             dd(e) == IF e >= 0 THEN d * Pow2(e) ELSE d
             e == CHOOSE x \in Exponents :
                     /\ Pow2(Precision - 1) * dd(x) <= nn(x)
                     /\ nn(x) < Pow2(Precision) * dd(x)
             q == nn(e) \div dd(e)
             r == nn(e) % dd(e)
             m == IF 2 * r < dd(e) THEN q
                  ELSE IF 2 * r > dd(e) THEN q + 1
                  ELSE IF q % 2 = 0 THEN q ELSE q + 1
         IN  IF m = Pow2(Precision) THEN Fl(Pow2(Precision - 1), e + 1)
             ELSE Fl(m, e)

\* x + y, x * y, x / y, x > y, x < y, min and max on floats.
FAdd(x, y) == RoundFloat(FNum(x) * FDen(y) + FNum(y) * FDen(x), FDen(x) * FDen(y))
FMul(x, y) == RoundFloat(FNum(x) * FNum(y), FDen(x) * FDen(y))
FDiv(x, y) == RoundFloat(FNum(x) * FDen(y), FDen(x) * FNum(y))
FGreater(x, y) == FNum(x) * FDen(y) > FNum(y) * FDen(x)
FLess(x, y) == FGreater(y, x)
FMin(x, y) == IF FLess(y, x) THEN y ELSE x
FMax(x, y) == IF FGreater(y, x) THEN y ELSE x

\* The float of a whole number, and of the literal 1.2.
FInt(n) == RoundFloat(n, 1)
F1_2 == RoundFloat(12, 10)

\* constrained_params[...] *= scale_factor
ScaleGain(gain, scale_factor) == FMul(gain, scale_factor)

\* apply_parameter_constraints: a copy of params with brightness capped at
\* 1.2 * contrast, the three gains scaled to a total of 300, and
\* noise_reduction raised to 20 under a sharpness above 50.  Every condition
\* and every right-hand side reads params, the argument.
apply_parameter_constraints(params) ==
    LET has(k) == k \in DOMAIN params
        cap == FMul(params["contrast"], F1_2)
        total_gain == FAdd(FAdd(params["red_gain"], params["green_gain"]),
                           params["blue_gain"])
        scale_factor == FDiv(FInt(300), total_gain)
        dim == has("brightness") /\ has("contrast")
                  /\ FGreater(params["brightness"], cap)
        balance == has("red_gain") /\ has("green_gain") /\ has("blue_gain")
                      /\ FGreater(total_gain, FInt(300))
        denoise == has("sharpness") /\ has("noise_reduction")
                      /\ FGreater(params["sharpness"], FInt(50))
                      /\ FLess(params["noise_reduction"], FInt(20))
    IN  [k \in DOMAIN params |->
            IF k = "brightness" /\ dim THEN FMin(params[k], cap)
            ELSE IF k \in {"red_gain", "green_gain", "blue_gain"} /\ balance
            THEN ScaleGain(params[k], scale_factor)
            ELSE IF k = "noise_reduction" /\ denoise
            THEN FMax(params[k], FInt(20))
            ELSE params[k]]

(* ------------------------------ sessions ------------------------------ *)
\* Session ids: none, one the client chooses, and generated ones
\* (generate_session_id hashes the current time: a new id at every call).
NoId == <<>>
ClientId == <<"s">>
generate_session_id(clock) == <<"gen", clock>>

\* save_optimization_session: the pickled WarmStartData replaces the file.
save_optimization_session(files, session_id, data) ==
    [id \in DOMAIN files \cup {session_id} |->
        IF id = session_id THEN data ELSE files[id]]

\* load_optimization_session: None when the file cannot be read.
load_optimization_session(files, session_id) ==
    IF session_id \in DOMAIN files THEN Some(files[session_id]) ELSE None

(* ------------------------------ responses ----------------------------- *)
SuggestResponse(params, done) ==
    [status |-> 200, model |-> "SuggestResponse", params |-> params, done |-> done]
BestResponse(params, target) ==
    [status |-> 200, model |-> "BestResponse", params |-> params, target |-> target]
OptimizationStatus(iteration, total_iterations, best_target, session_id) ==
    [status |-> 200, model |-> "OptimizationStatus", iteration |-> iteration,
     total_iterations |-> total_iterations, best_target |-> best_target,
     session_id |-> session_id]
NoResponse == [status |-> 0, model |-> ""]
HTTPException(status_code) == [status |-> status_code, model |-> "HTTPException"]

(* ------------------------------ a process ----------------------------- *)
\* The module globals after import, the session files on disk, the state of
\* `random`, the response to the last POST and the response to the last GET
\* since (got). clock counts the
\* ids generated; origin is history: how the current session was started.
Boot(entropy, files, clock) ==
    [optimizer                 |-> None,
     init_points_global        |-> 0,
     n_iter_global             |-> 0,
     suggestion_count          |-> 0,
     pbounds_global            |-> EmptyDict,
     optimization_history      |-> <<>>,
     multi_objective_targets   |-> <<>>,
     multi_objective_optimizer |-> None,
     optimization_session_id   |-> NoId,
     random                    |-> entropy,
     files                     |-> files,
     clock                     |-> clock,
     response                  |-> NoResponse,
     got                       |-> NoResponse,
     origin                    |-> None]

\* init resumes: a session_id is given and its file loads.
Resumes(p, req) ==
    req.session_id # NoId
    /\ ~IsNone(load_optimization_session(p.files, req.session_id))

\* POST /init
init(p, req) ==
    LET resumes == Resumes(p, req)
        loaded_session == Val(load_optimization_session(p.files, req.session_id))
        \* warm start
        p1 == IF resumes
              THEN [p EXCEPT
                      !.pbounds_global = loaded_session.pbounds,
                      !.optimization_history = loaded_session.optimization_history,
                      !.multi_objective_targets = loaded_session.target_metrics,
                      !.optimization_session_id = req.session_id,
                      !.suggestion_count =
                          Len(loaded_session.optimization_history) + 1]
              ELSE p
        \* if not optimization_session_id
        p2 == IF p1.optimization_session_id # NoId THEN p1
              ELSE IF req.session_id # NoId
              THEN [p1 EXCEPT !.optimization_session_id = req.session_id]
              ELSE [p1 EXCEPT
                      !.optimization_session_id = generate_session_id(p1.clock),
                      !.clock = @ + 1]
        \* fresh start
        p3 == IF resumes THEN p2
              ELSE [p2 EXCEPT
                      !.pbounds_global = req.pbounds,
                      !.init_points_global = req.init_points,
                      !.n_iter_global = req.n_iter,
                      !.suggestion_count = 1,
                      !.optimization_history = <<>>,
                      !.multi_objective_targets =
                          IF req.target_metrics = <<>> THEN <<"net_profit">>
                          ELSE req.target_metrics]
        raw == random_sample(p3.random, p3.pbounds_global)
    IN  [p3 EXCEPT
           !.multi_objective_optimizer =
               Some(MultiObjectiveOptimizer(p3.multi_objective_targets,
                                            req.metric_weights)),
           !.optimizer = Some(BayesianOptimization(req.random_state)),
           !.random = RandomNext(@),
           !.response =
               SuggestResponse(Some(coerce_params(raw, p3.pbounds_global)), FALSE),
           !.got = NoResponse,
           !.origin =
               Some([resumed |-> resumes,
                     saved |-> p3.optimization_history,
                     init_points |-> req.init_points,
                     n_iter |-> req.n_iter])]

\* observe: suggestion_count > init_points_global + n_iter_global
BudgetSpent(count, init_points, n_iter) == count > init_points + n_iter

\* POST /observe
observe(p, req) ==
    IF IsNone(p.optimizer)
    THEN [p EXCEPT !.response = HTTPException(400), !.got = NoResponse]
    ELSE
    LET constrained_params == apply_parameter_constraints(req.params)
        \* all_metrics = {"primary": target}; all_metrics.update(additional)
        all_metrics ==
            [k \in DOMAIN req.additional_metrics \cup {"primary"} |->
                IF k \in DOMAIN req.additional_metrics
                THEN req.additional_metrics[k] ELSE req.target]
        self == p.multi_objective_optimizer
        front == IF IsNone(self) THEN self
                 ELSE Some(update_pareto_front(Val(self), constrained_params,
                                               all_metrics))
        scalarized_target ==
            IF IsNone(self) THEN Exact(req.target)
            ELSE scalarize_objectives(Val(self), all_metrics)
        optimizer == register(Val(p.optimizer), constrained_params,
                              scalarized_target)
        history_entry ==
            [iteration |-> p.suggestion_count,
             params |-> constrained_params,
             target |-> req.target,
             scalarized_target |-> scalarized_target,
             additional_metrics |-> req.additional_metrics]
        history == Append(p.optimization_history, history_entry)
        \* saved with pbounds_original, which is pbounds_global in a session
        \* without a transformer
        files ==
            IF p.optimization_session_id # NoId
            THEN save_optimization_session(p.files, p.optimization_session_id,
                    [pbounds |-> p.pbounds_global,
                     optimization_history |-> history,
                     target_metrics |-> p.multi_objective_targets])
            ELSE p.files
        count == p.suggestion_count + 1
        random_phase == count <= p.init_points_global
        raw == IF random_phase THEN random_sample(p.random, p.pbounds_global)
               ELSE suggest(optimizer, p.pbounds_global)
        done == BudgetSpent(count, p.init_points_global, p.n_iter_global)
    IN  [p EXCEPT
           !.multi_objective_optimizer = front,
           !.optimizer = Some(optimizer),
           !.optimization_history = history,
           !.files = files,
           !.suggestion_count = count,
           !.random = IF ~done /\ random_phase THEN RandomNext(@) ELSE @,
           !.got = NoResponse,
           !.response =
               IF done THEN SuggestResponse(None, TRUE)
               ELSE SuggestResponse(Some(coerce_params(raw, p.pbounds_global)),
                                    FALSE)]

\* max([h["target"] for h in optimization_history])
RECURSIVE MaxTarget(_)
MaxTarget(history) ==
    IF Len(history) = 1 THEN history[1].target
    ELSE LET m == MaxTarget(SubSeq(history, 1, Len(history) - 1))
             t == history[Len(history)].target
         IN  IF t > m THEN t ELSE m

\* GET /best: the response.
best(p) ==
    IF IsNone(p.optimizer) THEN HTTPException(400)
    ELSE IF Val(p.optimizer).res = <<>> THEN HTTPException(400)
    ELSE LET best_result == Val(OptimizerMax(Val(p.optimizer)))
         IN  BestResponse(
                coerce_params([k \in DOMAIN best_result.params |->
                                  2 * best_result.params[k]],
                              p.pbounds_global),
                best_result.target)

\* GET /status: the response.
status(p) ==
    IF IsNone(p.optimizer) THEN HTTPException(400)
    ELSE OptimizationStatus(
            p.suggestion_count - 1,
            p.init_points_global + p.n_iter_global,
            IF p.optimization_history = <<>> THEN 0
            ELSE MaxTarget(p.optimization_history),
            p.optimization_session_id)

(* --------------------- two processes side by side --------------------- *)
\* Histories are followed up to MaxObserve observations.
MaxObserve == 2

\* InitRequest.random_state: Optional[int] = 42
DefaultRandomState == 42

\* Process 1 is the reference: it receives every request process 2 receives
\* for as long as the two are compared (phase "twin"), stands by while
\* process 2 restarts ("restarted") and resumes its session ("resumed"), and
\* is dropped once the two have parted ("apart").
Runs == {1, 2}

PBounds == [k \in {"x"} |-> <<0, 1>>]

\* The client names its session in every /init.
SessionIds == {ClientId}

\* The InitRequest fields a client sends: budgets with and without a random
\* and a Bayesian phase, one or two target metrics, default weights; no
\* parameter types, Sequential Domain Reduction switched off.
Plans ==
    [pbounds : {PBounds}, init_points : 0 .. 2, n_iter : 0 .. 1,
     random_state : {DefaultRandomState},
     target_metrics : {<<"net_profit">>, <<"net_profit", "win_rate">>},
     metric_weights : {EmptyDict}]

InitRequest(session_id) ==
    [pbounds |-> plan.pbounds, init_points |-> plan.init_points,
     n_iter |-> plan.n_iter, random_state |-> plan.random_state,
     target_metrics |-> plan.target_metrics,
     metric_weights |-> plan.metric_weights, session_id |-> session_id]

\* What an evaluator reports: the target alone, or with both named metrics
\* as additional_metrics.
Reports == {[target |-> 1, named |-> FALSE], [target |-> 2, named |-> FALSE],
            [target |-> 2, named |-> TRUE]}

AdditionalMetrics(target, named) ==
    IF named
    THEN [k \in {"net_profit", "win_rate"} |->
             IF k = "net_profit" THEN target ELSE 3 - target]
    ELSE EmptyDict

\* The evaluator reports on the proposal it was given last (on x = 0 when it
\* was given none).
ObserveRequest(p, target, named) ==
    [params |->
        IF p.response.model = "SuggestResponse"
        THEN IF IsNone(p.response.params) THEN [k \in {"x"} |-> 0]
             ELSE Val(p.response.params)
        ELSE [k \in {"x"} |-> 0],
     target |-> target,
     additional_metrics |-> AdditionalMetrics(target, named)]

ServiceInit ==
    /\ StreamIdle
    /\ plan \in Plans
    /\ procs \in [Runs -> {Boot(e, EmptyDict, 0) : e \in Entropies}]
    /\ phase = "twin"
    /\ moo = None
    /\ codec = None
    /\ preview = None
    /\ constraint = None
    /\ fresh = None
    /\ threads = None
    /\ pair = None
    /\ sdr = None

\* The processes a request goes to.
Acting == IF phase = "twin" THEN Runs ELSE {2}

\* The processes kept in a phase.
Kept(ph) == IF ph \in {"twin", "restarted", "resumed"} THEN Runs ELSE {2}

Apart(ph) == IF ph = "twin" THEN "twin" ELSE "apart"

\* POST /init, to both processes or to process 2 alone.
PostInit ==
    /\ \E session_id \in SessionIds :
       \E who \in {Acting, {2}} :
          LET req == InitRequest(session_id)
              ph  == IF who = Runs THEN "twin"
                     ELSE IF phase \in {"twin", "restarted"}
                             /\ Resumes(procs[2], req)
                     THEN "resumed" ELSE "apart"
          IN  /\ phase' = ph
              /\ procs' = [r \in Kept(ph) |->
                              IF r \in who THEN init(procs[r], req) ELSE procs[r]]
    /\ UNCHANGED <<stream, plan, moo, codec, preview, constraint, fresh, threads, pair, sdr>>

\* POST /observe
PostObserve ==
    /\ \A r \in Acting : Len(procs[r].optimization_history) < MaxObserve
    /\ \E report \in Reports :
          LET req(r) == ObserveRequest(procs[r], report.target, report.named)
              ph     == IF phase = "twin" /\ req(1) = req(2) THEN "twin"
                        ELSE "apart"
          IN  /\ phase' = ph
              /\ procs' = [r \in Kept(ph) |-> observe(procs[r], req(r))]
    /\ UNCHANGED <<stream, plan, moo, codec, preview, constraint, fresh, threads, pair, sdr>>

\* GET /best
GetBest ==
    /\ phase' = Apart(phase)
    /\ procs' = [r \in Kept(Apart(phase)) |->
                    [procs[r] EXCEPT !.got = best(procs[r])]]
    /\ UNCHANGED <<stream, plan, moo, codec, preview, constraint, fresh, threads, pair, sdr>>

\* GET /status
GetStatus ==
    /\ phase' = Apart(phase)
    /\ procs' = [r \in Kept(Apart(phase)) |->
                    [procs[r] EXCEPT !.got = status(procs[r])]]
    /\ UNCHANGED <<stream, plan, moo, codec, preview, constraint, fresh, threads, pair, sdr>>

\* Process 2 is stopped and started again: the globals are as after import,
\* `random` is seeded anew, the session files stay.
Restart ==
    /\ \E e \in Entropies :
          LET ph == IF phase = "twin" THEN "restarted" ELSE "apart"
          IN  /\ phase' = ph
              /\ procs' = [r \in Kept(ph) |->
                              IF r = 2
                              THEN Boot(e, procs[2].files, procs[2].clock)
                              ELSE procs[r]]
    /\ UNCHANGED <<stream, plan, moo, codec, preview, constraint, fresh, threads, pair, sdr>>

ServiceNext ==
    \/ PostInit
    \/ PostObserve
    \/ GetBest
    \/ GetStatus
    \/ Restart

ServiceSpec == ServiceInit /\ [][ServiceNext]_vars

(* ------------------ properties of the request/response server --------- *)
Started(p) == ~IsNone(p.optimizer)
FreshSession(p) == Started(p) /\ ~Val(p.origin).resumed
ResumedSession(p) == Started(p) /\ Val(p.origin).resumed
Proposal(response) ==
    IF response.model = "SuggestResponse" THEN ~response.done ELSE FALSE
SaysDone(response) ==
    IF response.model = "SuggestResponse" THEN response.done ELSE FALSE

\* C21: in a session started by a fresh /init with init_points = a and
\* n_iter = b, the history never holds more than a + b observations, and the
\* response to an /observe says done exactly when the history holds a + b.
C21_ObserveBudget ==
    \A r \in DOMAIN procs :
        LET p == procs[r]
            budget == Val(p.origin).init_points + Val(p.origin).n_iter
        IN  FreshSession(p) =>
               /\ Len(p.optimization_history) <= budget
               /\ p.optimization_history # <<>> =>
                     (SaysDone(p.response)
                        <=> Len(p.optimization_history) = budget)

\* C22: when /init has resumed a saved session, the sampler holds the saved
\* observations, in the saved order.
C22_WarmStartReplays ==
    \A r \in DOMAIN procs :
        LET p == procs[r]
            saved == Val(p.origin).saved
            res == Val(p.optimizer).res
        IN  (ResumedSession(p) /\ p.optimization_history = saved) =>
               /\ Len(res) = Len(saved)
               /\ \A i \in DOMAIN saved :
                     /\ res[i].params = saved[i].params
                     /\ res[i].target = saved[i].scalarized_target

\* C23: process 2 has saved its session after every observation and
\* resumes it, process 1 has received the same requests without the resume:
\* the proposal process 2 returns on resuming is the proposal process 1
\* returned last.
C23_WarmStartEquivalence ==
    (phase = "resumed" /\ Proposal(procs[1].response)) =>
        procs[2].response = procs[1].response

C25_SeedDeterminesProposals ==
    (phase = "twin" /\ DOMAIN procs = Runs) =>
        /\ procs[1].response = procs[2].response
        /\ procs[1].got = procs[2].got

\* C28: with a single declared target metric, the target registered with
\* the sampler for an observation is the observed target.
C28_SingleTargetRegistered ==
    \A r \in DOMAIN procs :
        LET p == procs[r]
            res == Val(p.optimizer).res
            history == p.optimization_history
        IN  (Started(p) /\ res # <<>> /\ Len(p.multi_objective_targets) = 1) =>
               NumEq(res[Len(res)].target, Exact(history[Len(history)].target))

\* C29: once an observation is recorded, GET /best answers with the params
\* and the target of a recorded observation with the highest observed
\* target, the best_target of GET /status.
C29_BestIsHighestObserved ==
    \A r \in DOMAIN procs :
        LET p == procs[r]
            history == p.optimization_history
        IN  (Started(p) /\ history # <<>>) =>
               /\ best(p).status = 200
               /\ status(p).status = 200
               /\ status(p).best_target = MaxTarget(history)
               /\ NumEq(best(p).target, Exact(status(p).best_target))
               /\ \E i \in DOMAIN history :
                     /\ history[i].target = MaxTarget(history)
                     /\ history[i].params = best(p).params

(* ====================================================================== *)
(* The Pareto front on its own (MultiObjectiveOptimizer)                  *)
(* ====================================================================== *)
\* Calls of update_pareto_front made on top of the starting front.
MaxUpdate == 2

FrontMetrics == <<"net_profit", "win_rate">>

\* Weights as /init passes them: none given, or net_profit counted twice.
FrontWeights ==
    {EmptyDict,
     [k \in {"net_profit", "win_rate"} |-> IF k = "net_profit" THEN 2 ELSE 1]}

\* The metrics of one observation: each target metric reported as 1 or 2,
\* or not reported.
MetricBags ==
    UNION {[keys -> {1, 2}] : keys \in SUBSET {"net_profit", "win_rate"}}

\* n equal observations in a row: none dominates another, so all n are in
\* the front (n <= FrontLimit).
Repeated(solution, n) == [i \in 1..n |-> solution]

FrontParams == [k \in {"x"} |-> 0]

\* The optimizer after n observations of the same metrics.
ObservedTimes(weights, metrics, n) ==
    LET self == MultiObjectiveOptimizer(FrontMetrics, weights)
    IN  [self EXCEPT !.pareto_front =
            Repeated([params |-> FrontParams, metrics |-> metrics,
                      scalarized_value |-> scalarize_objectives(self, metrics)],
                     n)]

ParetoInit ==
    /\ StreamIdle
    /\ procs = <<>>
    /\ phase = ""
    /\ plan = None
    /\ codec = None
    /\ preview = None
    /\ constraint = None
    /\ fresh = None
    /\ threads = None
    /\ pair = None
    /\ sdr = None
    /\ \E weights \in FrontWeights, metrics \in MetricBags, n \in 0..FrontLimit :
          moo = Some([self   |-> ObservedTimes(weights, metrics, n),
                      calls  |-> 0,
                      popped |-> FALSE,
                      cut    |-> FALSE])

\* One call of update_pareto_front, as observe() makes it.
UpdateFront ==
    /\ Val(moo).calls < MaxUpdate
    /\ \E metrics \in MetricBags :
          LET self  == Val(moo).self
              scan  == ScanFront(self, metrics, 1, {})
              after == update_pareto_front(self, FrontParams, metrics)
          IN  moo' = Some([self   |-> after,
                           calls  |-> Val(moo).calls + 1,
                           popped |-> \/ Val(moo).popped
                                      \/ /\ ~scan.is_dominated
                                         /\ scan.dominated_indices # {},
                           cut    |-> \/ Val(moo).cut
                                      \/ /\ ~scan.is_dominated
                                         /\ scan.dominated_indices = {}
                                         /\ Len(self.pareto_front) = FrontLimit])
    /\ UNCHANGED <<stream, procs, phase, plan, codec, preview, constraint, fresh, threads, pair, sdr>>

ParetoNext == UpdateFront

ParetoSpec == ParetoInit /\ [][ParetoNext]_vars

\* C26: after any sequence of update_pareto_front calls no solution of the
\* front is dominated (per _dominates, maximization over the target metrics)
\* by another solution of the front, and the front holds at most 20
\* solutions.
C26_ParetoFront ==
    ~IsNone(moo) =>
        LET self == Val(moo).self
        IN  /\ Len(self.pareto_front) <= FrontLimit
            /\ \A i, j \in DOMAIN self.pareto_front :
                  ~dominates(self, self.pareto_front[i].metrics,
                             self.pareto_front[j].metrics)

\* C26 witness: calls have removed dominated solutions and have cut a front
\* of 21 down to 20, and solutions with different metrics share the front.
C26_Witness ==
    /\ ~IsNone(moo)
    /\ Val(moo).popped
    /\ Val(moo).cut
    /\ \E i, j \in DOMAIN Val(moo).self.pareto_front :
          Val(moo).self.pareto_front[i].metrics
             # Val(moo).self.pareto_front[j].metrics

(* ====================================================================== *)
(* Parameter types: user form and continuous form (opt_server.py)         *)
(* ====================================================================== *)
\* Largest number of categories of a dimension, and largest bound.
MaxArity == 4
MaxBound == 3

\* Python values: a str, an int or a float (num / den, den > 0).
PyStr(label) == [type |-> "str", label |-> label, num |-> 0, den |-> 1]
PyInt(n) == [type |-> "int", label |-> "", num |-> n, den |-> 1]
PyFloat(n, d) == [type |-> "float", label |-> "", num |-> n, den |-> d]

\* x < y on numbers.
Below(x, y) == x.num * y.den < y.num * x.den

\* x == y in Python: strings by label, numbers by value (1 == 1.0).
PyEq(x, y) ==
    IF x.type = "str" \/ y.type = "str"
    THEN x.type = y.type /\ x.label = y.label
    ELSE x.num * y.den = y.num * x.den

\* float(value)
ToFloat(x) == PyFloat(x.num, x.den)

\* np.clip(value, lo, hi) = minimum(maximum(value, lo), hi)
Clip(x, lo, hi) ==
    LET up == IF Below(x, lo) THEN lo ELSE x
    IN  ToFloat(IF Below(hi, up) THEN hi ELSE up)

\* int(round(x)) for x >= 0: to the nearest integer, halves to the even one.
IntRound(x) ==
    LET q == x.num \div x.den
        r == x.num % x.den
    IN  PyInt(IF 2 * r < x.den THEN q
            ELSE IF 2 * r > x.den THEN q + 1
            ELSE IF q % 2 = 0 THEN q ELSE q + 1)

\* int(x) for x >= 0
IntTrunc(x) == PyInt(x.num \div x.den)

\* A value returned, or an exception raised.
Returned(x) == [raised |-> "", value |-> x]
Raised(exception) == [raised |-> exception, value |-> PyInt(0)]

\* categories.index(value): position (from 0) of the first equal label, -1
\* for ValueError.
Index(categories, label) ==
    IF \E i \in DOMAIN categories : categories[i] = label
    THEN (CHOOSE i \in DOMAIN categories :
             /\ categories[i] = label
             /\ \A j \in 1..(i - 1) : categories[j] # label) - 1
    ELSE -1

\* The category of a continuous value: handle_parameter_types, lines 438-441
\* and 449-452 (the same code for categorical and ordinal).
CategoryOf(value, dimension) ==
    LET lo == dimension.lo
        hi == dimension.hi
        k  == Len(dimension.categories)
    IN  IF hi.num * lo.den = lo.num * hi.den
        THEN Raised("ZeroDivisionError")
        ELSE LET \* (value - lo) / (hi - lo) * len(categories), as n / d
                 n == (value.num * lo.den - lo.num * value.den) * hi.den * k
                 d == value.den * (hi.num * lo.den - lo.num * hi.den)
                 category_index ==
                     IntTrunc(Clip(PyFloat(n, d), PyInt(0), PyInt(k - 1))).num
             IN  Returned(PyStr(dimension.categories[category_index + 1]))

\* handle_parameter_types, for one parameter of raw_params.
handle_parameter_types(value, dimension) ==
    LET lo == dimension.lo
        hi == dimension.hi
    IN  CASE dimension.param_type = "integer" ->
                Returned(IntRound(Clip(value, lo, hi)))
          [] dimension.param_type = "categorical" ->
                IF dimension.mapped THEN CategoryOf(value, dimension)
                ELSE Returned(value)
          [] dimension.param_type = "ordinal" ->
                IF dimension.mapped THEN CategoryOf(value, dimension)
                ELSE Returned(IntRound(Clip(value, lo, hi)))
          [] OTHER -> Returned(Clip(value, lo, hi))

\* reverse_parameter_encoding, for one parameter of processed_params.
reverse_parameter_encoding(value, dimension) ==
    LET lo == dimension.lo
        hi == dimension.hi
        k  == Len(dimension.categories)
    IN  IF /\ dimension.param_type \in {"categorical", "ordinal"}
           /\ dimension.mapped
           /\ value.type = "str"
        THEN LET category_index == Index(dimension.categories, value.label)
             IN  IF category_index < 0
                 THEN \* (lo + hi) / 2
                      Returned(PyFloat(lo.num * hi.den + hi.num * lo.den,
                                       2 * lo.den * hi.den))
                 ELSE LET \* normalized_value, as n / d
                          n == IF k > 1 THEN category_index ELSE 1
                          d == IF k > 1 THEN k - 1 ELSE 2
                      IN  \* lo + normalized_value * (hi - lo)
                          Returned(PyFloat(
                              lo.num * d * hi.den
                                 + n * (hi.num * lo.den - lo.num * hi.den),
                              lo.den * d * hi.den))
        ELSE IF value.type = "str" THEN Raised("ValueError")   \* float("a")
        ELSE Returned(ToFloat(value))

(* ---------------------------- dimensions ------------------------------ *)
LabelNames == <<"a", "b", "c", "d", "e", "f">>

\* Category lists of every arity from 1, and one that repeats a label.
CategoryLists ==
    {SubSeq(LabelNames, 1, k) : k \in 1..MaxArity} \cup {<<"a", "b", "a">>}

\* pbounds of one parameter: whole numbers lo <= hi.
BoundPairs == {<<lo, hi>> \in (0..MaxBound) \X (0..MaxBound) : lo <= hi}

Dimension(param_type, mapped, categories, bounds) ==
    [param_type |-> param_type, mapped |-> mapped, categories |-> categories,
     lo |-> PyFloat(bounds[1], 1), hi |-> PyFloat(bounds[2], 1)]

Dimensions ==
    {Dimension(t, TRUE, c, b) :
        t \in {"categorical", "ordinal"}, c \in CategoryLists, b \in BoundPairs}
    \cup
    {Dimension(t, FALSE, <<>>, b) :
        t \in {"integer", "ordinal", "categorical", "continuous"},
        b \in BoundPairs}

\* The values of a dimension in the user form: its labels; the integers
\* within its bounds; for a dimension that is neither, the reals within its
\* bounds (in halves).
UserValues(dimension) ==
    IF dimension.mapped
    THEN {PyStr(dimension.categories[i]) : i \in DOMAIN dimension.categories}
    ELSE IF dimension.param_type \in {"integer", "ordinal"}
    THEN {PyInt(n) : n \in dimension.lo.num..dimension.hi.num}
    ELSE {PyFloat(h, 2) : h \in (2 * dimension.lo.num)..(2 * dimension.hi.num)}

CodecInit ==
    /\ StreamIdle
    /\ procs = <<>>
    /\ phase = ""
    /\ plan = None
    /\ moo = None
    /\ preview = None
    /\ constraint = None
    /\ fresh = None
    /\ threads = None
    /\ pair = None
    /\ sdr = None
    /\ \E dimension \in Dimensions :
       \E value \in UserValues(dimension) :
          codec = Some([dimension |-> dimension, user |-> value,
                        step |-> "user", continuous |-> Raised(""),
                        processed |-> Raised("")])

\* reverse_parameter_encoding on the user value.
Encode ==
    /\ Val(codec).step = "user"
    /\ codec' = Some([Val(codec) EXCEPT
            !.step = "continuous",
            !.continuous = reverse_parameter_encoding(Val(codec).user,
                                                      Val(codec).dimension)])
    /\ UNCHANGED <<stream, procs, phase, plan, moo, preview, constraint, fresh, threads, pair, sdr>>

\* handle_parameter_types on the continuous value.
Decode ==
    /\ Val(codec).step = "continuous"
    /\ codec' = Some([Val(codec) EXCEPT
            !.step = "processed",
            !.processed =
                IF Val(codec).continuous.raised # "" THEN Val(codec).continuous
                ELSE handle_parameter_types(Val(codec).continuous.value,
                                            Val(codec).dimension)])
    /\ UNCHANGED <<stream, procs, phase, plan, moo, preview, constraint, fresh, threads, pair, sdr>>

CodecNext == Encode \/ Decode

CodecSpec == CodecInit /\ [][CodecNext]_vars

\* The value came back from the round trip.
RoundTrip ==
    /\ Val(codec).processed.raised = ""
    /\ PyEq(Val(codec).processed.value, Val(codec).user)

\* C27: for every dimension kind and every value v valid in the user form
\* (every integer within bounds, every label of a categorical or ordinal of
\* any arity k >= 1), handle_parameter_types applied to
\* reverse_parameter_encoding of v returns v.
C27_RoundTrip ==
    (~IsNone(codec) /\ Val(codec).step = "processed") => RoundTrip

(* ====================================================================== *)
(* POST /config/preview (backend/app/main.py)                             *)
(* ====================================================================== *)
\* Longest parameter list of a previewed configuration.
MaxPreviewParams == 2

\* Parameters of a request body: optimisable or not, enabled or not, with
\* a range that validates or not.
PreviewParams ==
    {Param("x", type, enabled, range) :
        type \in {"int", "string"}, enabled \in BOOLEAN,
        range \in {Range(0, 2, None), Range(2, 2, None)}}

PreviewBodies ==
    {[params |-> params, settings |-> Settings("net-profit", trials, <<>>)] :
        params \in UNION {[1..n -> PreviewParams] : n \in 0..MaxPreviewParams},
        trials \in {TrialsGt, 1, MaxTrials, TrialsLt}}

\* Mutant of EnabledCount: only the parameters the optimiser can search
\* are counted.
EnabledCountSearchable(params) ==
    Cardinality({i \in DOMAIN params : NumericEnabled(params[i])})

\* sum(p.enabled for p in config.params)
RECURSIVE EnabledCount(_)
EnabledCount(params) ==
    IF params = <<>> THEN 0
    ELSE (IF Head(params).enabled THEN 1 ELSE 0) + EnabledCount(Tail(params))

PreviewResponse(status_code, parameters, trials) ==
    [status |-> status_code, parameters |-> parameters, trials |-> trials]

\* preview_config behind FastAPI's validation of the body (422 when the body
\* is no OptimisationConfig).
preview_config(body) ==
    IF ~StartValid(body) THEN PreviewResponse(422, 0, 0)
    ELSE LET enabled_count == EnabledCount(body.params)
         IN  IF enabled_count = 0 THEN PreviewResponse(400, 0, 0)
             ELSE PreviewResponse(200, enabled_count, body.settings.trials)

PreviewInit ==
    /\ StreamIdle
    /\ procs = <<>>
    /\ phase = ""
    /\ plan = None
    /\ moo = None
    /\ codec = None
    /\ constraint = None
    /\ fresh = None
    /\ threads = None
    /\ pair = None
    /\ sdr = None
    /\ \E body \in PreviewBodies :
          preview = Some([config |-> body, response |-> None])

\* POST /config/preview: the handler reads its argument and nothing else.
PostPreview ==
    /\ IsNone(Val(preview).response)
    /\ preview' = Some([Val(preview) EXCEPT
            !.response = Some(preview_config(Val(preview).config))])
    /\ UNCHANGED <<stream, procs, phase, plan, moo, codec, constraint, fresh, threads, pair, sdr>>

PreviewNext == PostPreview

PreviewSpec == PreviewInit /\ [][PreviewNext]_vars

\* A configuration was previewed: the request was answered and its body was
\* an OptimisationConfig.
Previewed ==
    /\ ~IsNone(preview)
    /\ ~IsNone(Val(preview).response)
    /\ StartValid(Val(preview).config)

\* C30: POST /config/preview starts no session and returns {parameters:
\* number of enabled parameters, trials: settings.trials} when at least one
\* parameter is enabled, and HTTP 400 exactly when no parameter is enabled.
C30_Preview ==
    Previewed =>
        LET body     == Val(preview).config
            response == Val(Val(preview).response)
            enabled  == {i \in DOMAIN body.params : body.params[i].enabled}
        IN  /\ StreamIdle
            /\ (response.status = 400) <=> (enabled = {})
            /\ enabled # {} =>
                  /\ response.status = 200
                  /\ response.parameters = Cardinality(enabled)
                  /\ response.trials = body.settings.trials

\* C30 witness: a preview answered with a count that includes an enabled
\* parameter of a type the optimiser does not search, and no session exists.
C30_Witness ==
    /\ Previewed
    /\ Val(Val(preview).response).status = 200
    /\ Val(Val(preview).response).parameters = 2
    /\ \E i \in DOMAIN Val(preview).config.params :
          /\ Val(preview).config.params[i].enabled
          /\ Val(preview).config.params[i].type = "string"
    /\ StreamIdle

(* ====================================================================== *)
(* apply_parameter_constraints on its own (opt_server.py)                 *)
(* ====================================================================== *)
\* Groups of constrained parameters as a client may send them (whole
\* numbers): the gains, brightness with contrast, sharpness with
\* noise_reduction.
GainGroups ==
    [{"red_gain", "green_gain", "blue_gain"} -> {FInt(2), FInt(100), FInt(240)}]

DimGroups ==
    {[k \in {"brightness", "contrast"} |->
         IF k = "brightness" THEN FInt(b) ELSE FInt(c)] :
        b \in {10, 70}, c \in {3, 50}}

DenoiseGroups ==
    {[k \in {"sharpness", "noise_reduction"} |->
         IF k = "sharpness" THEN FInt(s) ELSE FInt(n)] :
        s \in {40, 60}, n \in {10, 30}}

\* {**a, **b} for dicts without a common key.
Merge(a, b) ==
    [k \in DOMAIN a \cup DOMAIN b |-> IF k \in DOMAIN a THEN a[k] ELSE b[k]]

NoParams == [k \in {} |-> Fl(0, 0)]

\* Parameter vectors: any of the groups, or none.
ParamVectors ==
    {Merge(g, Merge(d, n)) :
        g \in GainGroups \cup {NoParams},
        d \in DimGroups \cup {NoParams},
        n \in DenoiseGroups \cup {NoParams}}

ConstraintInit ==
    /\ StreamIdle
    /\ procs = <<>>
    /\ phase = ""
    /\ plan = None
    /\ moo = None
    /\ codec = None
    /\ preview = None
    /\ fresh = None
    /\ threads = None
    /\ pair = None
    /\ sdr = None
    /\ \E params \in ParamVectors :
          constraint = Some([params |-> params, calls |-> 0,
                             once |-> NoParams, twice |-> NoParams])

\* apply_parameter_constraints(params): the argument is only read.
Constrain ==
    /\ Val(constraint).calls = 0
    /\ constraint' = Some([Val(constraint) EXCEPT
            !.calls = 1,
            !.once = apply_parameter_constraints(Val(constraint).params)])
    /\ UNCHANGED <<stream, procs, phase, plan, moo, codec, preview, fresh, threads, pair, sdr>>

\* apply_parameter_constraints on the result of the first call.
ConstrainAgain ==
    /\ Val(constraint).calls = 1
    /\ constraint' = Some([Val(constraint) EXCEPT
            !.calls = 2,
            !.twice = apply_parameter_constraints(Val(constraint).once)])
    /\ UNCHANGED <<stream, procs, phase, plan, moo, codec, preview, fresh, threads, pair, sdr>>

ConstraintNext == Constrain \/ ConstrainAgain

ConstraintSpec == ConstraintInit /\ [][ConstraintNext]_vars

\* C31: apply_parameter_constraints is idempotent: applied to its own
\* result it returns that result unchanged, for every parameter vector (it
\* never writes to its argument).
C31_Idempotent ==
    (~IsNone(constraint) /\ Val(constraint).calls = 2) =>
        Val(constraint).twice = Val(constraint).once

(* ====================================================================== *)
(* The streaming session: telling the sampler, best, progress             *)
(* ====================================================================== *)
\* The trial numbers the study has been told about.
ToldNumbers == {study.told[i][1] : i \in DOMAIN study.told}

\* C32: every trial that received its matching result has been told to the
\* sampler exactly once, with the objective its trial-complete reports, by
\* the time the trial-complete is emitted and before the next proposal is
\* asked; a trial abandoned by stop or disconnect is never told.
C32_ToldOnce ==
    /\ \A i, j \in DOMAIN study.told :
          study.told[i][1] = study.told[j][1] => i = j
    /\ ToldNumbers = processed
    /\ \A f \in Completes :
          \E i \in DOMAIN study.told :
              study.told[i] = <<out[f].trial, out[f].objective>>
    /\ Cardinality(Completes) = Len(study.told)
    /\ \A r \in Requests : \A n \in 0..(out[r].trial - 1) : n \in ToldNumbers
    /\ study.asked <= Len(study.told) + 1
    /\ ~IsNone(abandoned) =>
          /\ Val(abandoned).trial \notin ToldNumbers
          /\ Len(study.told) = Val(abandoned).told

\* C32 witness: two trials were told, one of them with the penalty, and the
\* third was abandoned on a stop.
C32_Witness ==
    /\ Len(study.told) = 2
    /\ \E i \in DOMAIN study.told : study.told[i][2] = PENALTY_SCORE
    /\ ~IsNone(abandoned)
    /\ Val(abandoned).trial = 2
    /\ cause = "stop"
    /\ Closed

\* The trial-complete frames of the trials that hold the target metric and
\* pass every configured filter.
PassingCompletes ==
    {i \in Completes : ~Penalised(Val(config), out[i].metrics)}

\* C33: a non-null best snapshot is the earliest completed trial that
\* attains the maximum raw target metric among the completed trials that
\* passed the filters (a tie keeps the earlier trial), and its trial, params
\* and metrics are those of that one trial.
C33_BestIsEarliestMaximum ==
    ~IsNone(best_snapshot) =>
        \E i \in PassingCompletes :
            LET value(j) == TargetValue(Val(config), out[j].metrics)
            IN  /\ \A j \in PassingCompletes :
                      /\ value(j) <= value(i)
                      /\ value(j) = value(i) => i <= j
                /\ Val(best_snapshot).metric = value(i)
                /\ Val(best_snapshot).trial = out[i].trial
                /\ Val(best_snapshot).params = out[i].params
                /\ Val(best_snapshot).metrics = out[i].metrics

\* The trial-complete frames emitted up to and including frame i.
CompletesUpTo(i) == {j \in Completes : j <= i}

\* C35: in every trial-complete, progress.completed is the number of
\* trial-complete frames emitted so far including this one, which is the
\* trial number + 1, progress.total is settings.trials, and best already
\* reflects the trial being reported.
C35_ProgressAndBest ==
    \A i \in Completes :
        /\ out[i].progress.completed = Cardinality(CompletesUpTo(i))
        /\ out[i].progress.completed = out[i].trial + 1
        /\ out[i].progress.total = Val(config).settings.trials
        /\ IF /\ out[i].passedFilters
              /\ \/ IsNone(PrevBest(i))
                 \/ out[i].objective > Val(PrevBest(i)).metric
           THEN /\ ~IsNone(out[i].best)
                /\ Val(out[i].best).trial = out[i].trial
                /\ Val(out[i].best).metric = out[i].objective
                /\ Val(out[i].best).params = out[i].params
                /\ Val(out[i].best).metrics = out[i].metrics
           ELSE out[i].best = PrevBest(i)

\* C35 witness: the third trial-complete of a session reports a trial that
\* has just become best, over an earlier best.
C35_Witness ==
    \E i \in Completes :
        /\ out[i].progress.completed = 3
        /\ ~IsNone(PrevBest(i))
        /\ ~IsNone(out[i].best)
        /\ Val(out[i].best).trial = out[i].trial

(* ====================================================================== *)
(* The streaming session with a fair peer                                 *)
(* ====================================================================== *)
\* The peer sends one message at a time: the next one when the server has
\* read the one before.
PeerSend == inbox = <<>> /\ ClientSend

\* A message that lets the session go on: the first message of the channel,
\* a stop, or the trial-result of the trial the server waits for.
Resolving(m) ==
    \/ pc = "expect_start"
    \/ /\ IsObject(m)
       /\ \/ m.type = "stop"
          \/ /\ IsResult(m)
             /\ ~IsNone(trial)
             /\ m.trial = Val(trial).number

\* The peer answers the trial-request, sends stop, or disconnects.
PeerResolves ==
    \/ ClientDisconnect
    \/ PeerSend /\ Resolving(Head(inbox'))

\* A step of run(): the session is one coroutine, which runs whenever what
\* it awaits is there.
ServerStep ==
    \/ RunDisconnectBeforeStart
    \/ RunRejectStart
    \/ RunStart
    \/ LoopExit
    \/ LoopAsk
    \/ LoopAskFails
    \/ WaitProtocolError
    \/ WaitStop
    \/ WaitDisconnect
    \/ WaitMismatch
    \/ WaitResult
    \/ SendCompletion

LiveNext ==
    \/ PeerSend
    \/ ClientDisconnect
    \/ ServerStep

LiveSpec ==
    /\ Init
    /\ [][LiveNext]_vars
    /\ WF_vars(ServerStep)
    /\ SF_vars(PeerResolves)

\* The session is over: run() has returned or raised, and a peer that is
\* still there has been sent a terminal message last.
Terminated ==
    /\ Closed
    /\ peer = "open" =>
          /\ out # <<>>
          /\ out[Len(out)].type \in {"complete", "error"}
          /\ out[Len(out)].delivered
    /\ ~IsNone(config) => completed <= Val(config).settings.trials

\* C34: against a peer that answers every trial-request with the matching
\* trial-result, or sends stop, or disconnects, the session eventually sends
\* its terminal message and closes the channel, after at most
\* settings.trials completed trials.
C34_Terminates == <>Terminated

\* C34 witness: a session that ran its whole budget against a peer that
\* also sent a result for another trial has ended.
C34_Witness ==
    /\ Terminated
    /\ ignored
    /\ ~IsNone(config)
    /\ completed = MaxTrials
    /\ peer = "open"

(* ---------------- fresh sessions in one running process --------------- *)
\* One process of opt_server.py serves one optimisation after another: every
\* POST /init comes without a session_id.
MaxSessions == 2

FreshIds == Val(fresh).ids
FreshKept == Val(fresh).kept

SessionsInit ==
    /\ StreamIdle
    /\ plan \in Plans
    /\ procs \in [{2} -> {Boot(e, EmptyDict, 0) : e \in Entropies}]
    /\ phase = "apart"
    /\ moo = None
    /\ codec = None
    /\ preview = None
    /\ constraint = None
    /\ threads = None
    /\ pair = None
    /\ sdr = None
    /\ fresh = Some([ids |-> <<>>, kept |-> EmptyDict])

\* POST /init without session_id. fresh records the id the session got and
\* the session files as they were when it started.
PostFreshInit ==
    /\ Len(FreshIds) < MaxSessions
    /\ LET p == init(procs[2], InitRequest(NoId))
       IN  /\ procs' = [r \in {2} |-> p]
           /\ fresh' = Some([ids |-> Append(FreshIds, p.optimization_session_id),
                             kept |-> procs[2].files])
    /\ UNCHANGED <<stream, phase, plan, moo, codec, preview, constraint, threads, pair, sdr>>

\* POST /observe of the session started last
PostFreshObserve ==
    /\ Len(procs[2].optimization_history) < MaxObserve
    /\ \E report \in Reports :
          procs' = [r \in {2} |->
                       observe(procs[2],
                               ObserveRequest(procs[2], report.target,
                                              report.named))]
    /\ UNCHANGED <<stream, phase, plan, moo, codec, preview, constraint, fresh, threads, pair, sdr>>

SessionsNext ==
    \/ PostFreshInit
    \/ PostFreshObserve

SessionsSpec == SessionsInit /\ [][SessionsNext]_vars

\* C36: every fresh /init gives the session an id no earlier session of the
\* process had, and the /observe calls of a session leave the files of the
\* sessions before it as they were when it started.
C36_FreshSessionsApart ==
    /\ \A i, j \in 1 .. Len(FreshIds) : i < j => FreshIds[i] # FreshIds[j]
    /\ \A id \in DOMAIN FreshKept :
          /\ id \in DOMAIN procs[2].files
          /\ procs[2].files[id] = FreshKept[id]

(* ------------------ /observe requests served in parallel -------------- *)
\* The handlers are plain functions: the framework runs each request on a
\* thread of its pool, and observe takes no lock. A thread may be preempted
\* between any two of its reads and writes of the module globals; the steps
\* below are cut where the claim's globals are read and written.
Workers == {1, 2}

Idle == [pc |-> "idle", history_entry |-> None, loaded |-> 0]
Worker(w) == Val(threads).workers[w]
Accepted == Val(threads).accepted
Quiescent == \A w \in Workers : Worker(w).pc = "idle"

ThreadsInit ==
    /\ StreamIdle
    /\ plan \in Plans
    /\ procs \in [{2} -> {Boot(e, EmptyDict, 0) : e \in Entropies}]
    /\ phase = "apart"
    /\ moo = None
    /\ codec = None
    /\ preview = None
    /\ constraint = None
    /\ fresh = None
    /\ pair = None
    /\ sdr = None
    /\ threads = Some([workers |-> [w \in Workers |-> Idle], accepted |-> 0])

SetWorker(w, state, accepted) ==
    threads' = Some([workers |-> [Val(threads).workers EXCEPT ![w] = state],
                     accepted |-> accepted])

\* POST /init, while no observe is running
ThreadsPostInit ==
    /\ IsNone(procs[2].optimizer)
    /\ Quiescent
    /\ procs' = [r \in {2} |-> init(procs[2], InitRequest(NoId))]
    /\ UNCHANGED <<stream, phase, plan, moo, codec, preview, constraint, fresh,
                   threads, pair, sdr>>

\* observe up to history_entry: the 400, or the constraints, the front, the
\* registration, and the entry with "iteration": suggestion_count.
ObserveEntry(w) ==
    /\ Worker(w).pc = "idle"
    /\ Accepted < MaxObserve
    /\ \E report \in Reports :
       \E p \in {procs[2]} :
       \E q \in {observe(p, ObserveRequest(p, report.target, report.named))} :
              IF IsNone(p.optimizer)
              THEN /\ procs' = [r \in {2} |-> q]
                   /\ UNCHANGED threads
              ELSE /\ procs' = [r \in {2} |->
                          [p EXCEPT
                             !.optimizer = q.optimizer,
                             !.multi_objective_optimizer =
                                 q.multi_objective_optimizer]]
                   /\ SetWorker(w,
                          [pc |-> "entry",
                           history_entry |->
                               Some(q.optimization_history[
                                        Len(q.optimization_history)]),
                           loaded |-> 0],
                          Accepted + 1)
    /\ UNCHANGED <<stream, phase, plan, moo, codec, preview, constraint, fresh, pair, sdr>>

\* optimization_history.append(history_entry) and the save of the session
ObserveAppend(w) ==
    /\ Worker(w).pc = "entry"
    /\ LET p == procs[2]
           history == Append(p.optimization_history,
                             Val(Worker(w).history_entry))
       IN  procs' = [r \in {2} |->
               [p EXCEPT
                  !.optimization_history = history,
                  !.files =
                      IF p.optimization_session_id # NoId
                      THEN save_optimization_session(p.files,
                               p.optimization_session_id,
                               [pbounds |-> p.pbounds_global,
                                optimization_history |-> history,
                                target_metrics |-> p.multi_objective_targets])
                      ELSE p.files]]
    /\ SetWorker(w, [Worker(w) EXCEPT !.pc = "saved"], Accepted)
    /\ UNCHANGED <<stream, phase, plan, moo, codec, preview, constraint, fresh, pair, sdr>>

\* suggestion_count += 1: the global is read ...
ObserveLoad(w) ==
    /\ Worker(w).pc = "saved"
    /\ SetWorker(w, [Worker(w) EXCEPT !.pc = "loaded",
                                      !.loaded = procs[2].suggestion_count],
                 Accepted)
    /\ UNCHANGED <<stream, procs, phase, plan, moo, codec, preview, constraint,
                   fresh, pair, sdr>>

\* The rest of observe after suggestion_count is stored: done, or the next
\* suggestion.
respond(p) ==
    LET count == p.suggestion_count
        random_phase == count <= p.init_points_global
        raw == IF random_phase THEN random_sample(p.random, p.pbounds_global)
               ELSE suggest(Val(p.optimizer), p.pbounds_global)
        done == BudgetSpent(count, p.init_points_global, p.n_iter_global)
    IN  [p EXCEPT
           !.random = IF ~done /\ random_phase THEN RandomNext(@) ELSE @,
           !.got = NoResponse,
           !.response =
               IF done THEN SuggestResponse(None, TRUE)
               ELSE SuggestResponse(Some(coerce_params(raw, p.pbounds_global)),
                                    FALSE)]

\* ... and written back one higher; the response follows.
ObserveStore(w) ==
    /\ Worker(w).pc = "loaded"
    /\ procs' = [r \in {2} |->
                    respond([procs[2] EXCEPT
                               !.suggestion_count = Worker(w).loaded + 1])]
    /\ SetWorker(w, Idle, Accepted)
    /\ UNCHANGED <<stream, phase, plan, moo, codec, preview, constraint, fresh, pair, sdr>>

ThreadsNext ==
    \/ ThreadsPostInit
    \/ \E w \in Workers : ObserveEntry(w)
    \/ \E w \in Workers : ObserveAppend(w)
    \/ \E w \in Workers : ObserveLoad(w)
    \/ \E w \in Workers : ObserveStore(w)

ThreadsSpec == ThreadsInit /\ [][ThreadsNext]_vars

Iterations(history) == [i \in 1 .. Len(history) |-> history[i].iteration]

\* C37: once the /observe requests sent to a fresh session have all
\* returned, the history has one entry for each of them, the entries carry
\* the iteration numbers 1, 2, ... in order, and suggestion_count has
\* advanced by the number of requests.
C37_ObserveSerial ==
    (Quiescent /\ Started(procs[2])) =>
        /\ Len(procs[2].optimization_history) = Accepted
        /\ Iterations(procs[2].optimization_history) =
               [i \in 1 .. Accepted |-> i]
        /\ procs[2].suggestion_count = 1 + Accepted

(* ------------------- two streaming sessions at once ------------------- *)
\* optimise_ws makes one OptimisationSession for each connection. Two
\* sessions have their fields apart; what they can share is the storage named
\* by OPTUNA_STORAGE and the clock that _create_study reads. Both clients
\* answer every trial-request with a passing result and never stop.
MaxTick == 1

Connections == {1, 2}
StrategyIds == {"a", "b"}
PairTrials == {1, 2}

Session(s) == pair.sessions[s]

\* optuna.create_study(study_name, storage, load_if_exists=False): with no
\* storage_url the study is kept in a storage of its own; in a shared
\* storage a name already there raises DuplicatedStudyError.
Duplicated(storage, study_name) ==
    IF IsNone(storage) THEN FALSE ELSE study_name \in Val(storage)

create_study(storage, study_name) ==
    IF IsNone(storage) THEN storage ELSE Some(Val(storage) \cup {study_name})

\* f"{strategy_id}-{int(time.time())}"
StudyName(strategy_id, clock) == <<strategy_id, clock>>

PairInit ==
    /\ StreamIdle
    /\ procs = <<>>
    /\ phase = ""
    /\ plan = None
    /\ moo = None
    /\ codec = None
    /\ preview = None
    /\ constraint = None
    /\ fresh = None
    /\ threads = None
    /\ sdr = None
    /\ \E storage \in {None, Some({})} :
          pair = [sessions |->
                     [s \in Connections |->
                         [pc |-> "expect_start", strategy_id |-> "",
                          trials |-> 0, completed |-> 0, asked |-> 0,
                          out |-> <<>>, raised |-> "none"]],
                  storage |-> storage,
                  clock |-> 0]

SetSession(s, state) == [pair EXCEPT !.sessions[s] = state]

\* run() with a valid start message: status, then _optimise up to the loop.
PairStart(s) ==
    /\ Session(s).pc = "expect_start"
    /\ \E strategy_id \in StrategyIds, trials \in PairTrials :
          LET study_name == StudyName(strategy_id, pair.clock)
              started == [Session(s) EXCEPT
                            !.strategy_id = strategy_id,
                            !.trials = trials,
                            !.out = Append(@, [type |-> "status", trial |-> -1])]
          IN  IF Duplicated(pair.storage, study_name)
              THEN pair' = SetSession(s,
                      [started EXCEPT !.pc = "completing",
                                      !.raised = "DuplicatedStudyError"])
              ELSE pair' = [SetSession(s, [started EXCEPT !.pc = "loop"])
                              EXCEPT !.storage =
                                  create_study(pair.storage, study_name)]
    /\ UNCHANGED <<stream, procs, phase, plan, moo, codec, preview, constraint,
                   fresh, threads, sdr>>

\* The loop condition, and _request_next_trial: study.ask and trial-request.
PairAsk(s) ==
    /\ Session(s).pc = "loop"
    /\ pair' = SetSession(s,
          IF Session(s).completed < Session(s).trials
          THEN [Session(s) EXCEPT
                  !.pc = "wait",
                  !.asked = @ + 1,
                  !.out = Append(@, [type |-> "trial-request",
                                     trial |-> Session(s).asked])]
          ELSE [Session(s) EXCEPT !.pc = "completing"])
    /\ UNCHANGED <<stream, procs, phase, plan, moo, codec, preview, constraint,
                   fresh, threads, sdr>>

\* The matching trial-result: tell, completed += 1, trial-complete.
PairResult(s) ==
    /\ Session(s).pc = "wait"
    /\ pair' = SetSession(s,
          [Session(s) EXCEPT
             !.pc = "loop",
             !.completed = @ + 1,
             !.out = Append(@, [type |-> "trial-complete",
                                trial |-> Session(s).asked - 1])])
    /\ UNCHANGED <<stream, procs, phase, plan, moo, codec, preview, constraint,
                   fresh, threads, sdr>>

\* finally: _send_completion
PairComplete(s) ==
    /\ Session(s).pc = "completing"
    /\ pair' = SetSession(s,
          [Session(s) EXCEPT
             !.pc = "closed",
             !.out = Append(@, [type |-> "complete", trial |-> -1])])
    /\ UNCHANGED <<stream, procs, phase, plan, moo, codec, preview, constraint,
                   fresh, threads, sdr>>

\* A second passes.
Tick ==
    /\ pair.clock < MaxTick
    /\ pair' = [pair EXCEPT !.clock = @ + 1]
    /\ UNCHANGED <<stream, procs, phase, plan, moo, codec, preview, constraint,
                   fresh, threads, sdr>>

PairNext ==
    \/ \E s \in Connections : PairStart(s)
    \/ \E s \in Connections : PairAsk(s)
    \/ \E s \in Connections : PairResult(s)
    \/ \E s \in Connections : PairComplete(s)
    \/ Tick

PairSpec == PairInit /\ [][PairNext]_vars

\* The frames of a session that runs alone with this client: status, a
\* trial-request and a trial-complete for each of the trials, complete.
RECURSIVE LoopFrames(_)
LoopFrames(trials) ==
    IF trials = 0 THEN <<[type |-> "status", trial |-> -1]>>
    ELSE LoopFrames(trials - 1)
         \o <<[type |-> "trial-request", trial |-> trials - 1],
              [type |-> "trial-complete", trial |-> trials - 1]>>

AloneFrames(trials) ==
    LoopFrames(trials) \o <<[type |-> "complete", trial |-> -1]>>

\* C38: each of two sessions running at once runs its own full loop: a
\* session that has closed has completed all its trials, and its frames are
\* those it sends when it runs alone, whatever the other session did.
C38_SessionsIndependent ==
    \A s \in Connections :
        Session(s).pc = "closed" =>
            /\ Session(s).completed = Session(s).trials
            /\ Session(s).out = AloneFrames(Session(s).trials)

(* ----------------- sequential domain reduction of bounds -------------- *)
\* One session of opt_server.py with use_sdr, one parameter x. The
\* transformer is the library's: whether setup_sdr_transformer gets one, and
\* what transform returns or whether it raises, is left open, as the try
\* blocks of both functions leave it. Every observe registers a new point.
MaxRes == 6

GivenBounds == {<<0, 2>>, <<0, 3>>, <<1, 4>>}

\* The intervals inside the bounds b.
Intervals(b) == {i \in (b[1] .. b[2]) \X (b[1] .. b[2]) : i[1] < i[2]}

BoundsInit ==
    /\ StreamIdle
    /\ procs = <<>>
    /\ phase = ""
    /\ plan = None
    /\ moo = None
    /\ codec = None
    /\ preview = None
    /\ constraint = None
    /\ fresh = None
    /\ threads = None
    /\ pair = None
    /\ sdr = [started |-> FALSE, sdr_transformer |-> FALSE, res |-> 0,
              pbounds_global |-> EmptyDict, pbounds_original |-> EmptyDict,
              given |-> EmptyDict, reduced_at |-> <<>>]

\* setup_sdr_transformer: the transformer, or None when the library raises.
setup_sdr_transformer == {TRUE, FALSE}

\* POST /init, a fresh start: pbounds_global = req.pbounds,
\* pbounds_original = req.pbounds.copy(), then the transformer if use_sdr.
BoundsPostInit ==
    /\ ~sdr.started
    /\ \E bounds \in GivenBounds, use_sdr \in BOOLEAN :
       \E transformer \in setup_sdr_transformer :
          sdr' = [started |-> TRUE,
                  sdr_transformer |-> IF use_sdr THEN transformer ELSE FALSE,
                  res |-> 0,
                  pbounds_global |-> [k \in {"x"} |-> bounds],
                  pbounds_original |-> [k \in {"x"} |-> bounds],
                  given |-> [k \in {"x"} |-> bounds],
                  reduced_at |-> <<>>]
    /\ UNCHANGED <<stream, procs, phase, plan, moo, codec, preview, constraint,
                   fresh, threads, pair>>

\* What sdr_transformer.transform(X, y) does: it raises, or returns bounds
\* inside the original ones.
Transforms(s) ==
    {[raised |-> TRUE, bounds |-> s.pbounds_global["x"]]} \cup
    {[raised |-> FALSE, bounds |-> i] : i \in Intervals(s.pbounds_original["x"])}

\* update_sdr_bounds, transform having the outcome given.
update_sdr_bounds(s, outcome) ==
    IF ~s.sdr_transformer \/ s.res < 3 THEN s
    ELSE IF outcome.raised THEN s
    ELSE [s EXCEPT !.pbounds_global = [k \in {"x"} |-> outcome.bounds]]

\* observe: `if sdr_transformer and len(optimizer.res) >= 3 and
\* (len(optimizer.res) % 3 == 0)`
UpdateDue(s) == s.sdr_transformer /\ s.res >= 3 /\ s.res % 3 = 0

\* POST /observe: the point is registered, then the bounds are updated when
\* due. reduced_at keeps the number of observations at every change of
\* pbounds_global.
BoundsObserve ==
    /\ sdr.started
    /\ sdr.res < MaxRes
    /\ LET registered == [sdr EXCEPT !.res = @ + 1]
       IN  \E outcome \in Transforms(sdr) :
              LET updated == IF UpdateDue(registered)
                             THEN update_sdr_bounds(registered, outcome)
                             ELSE registered
              IN  sdr' = [updated EXCEPT
                            !.reduced_at =
                               IF updated.pbounds_global # sdr.pbounds_global
                               THEN Append(@, updated.res) ELSE @]
    /\ UNCHANGED <<stream, procs, phase, plan, moo, codec, preview, constraint,
                   fresh, threads, pair>>

BoundsNext ==
    \/ BoundsPostInit
    \/ BoundsObserve

BoundsSpec == BoundsInit /\ [][BoundsNext]_vars

\* C39: the bounds of a session are reduced at most once, never before the
\* session has 20 observations, and the original bounds stay those given in
\* /init.
C39_ReducedOnceLate ==
    /\ Len(sdr.reduced_at) <= 1
    /\ \A i \in 1 .. Len(sdr.reduced_at) : sdr.reduced_at[i] >= 20
    /\ sdr.started => sdr.pbounds_original = sdr.given

====
